---- MODULE Spec2Model ----
(***************************************************************************)
(* Model of the Codex MCP provider: the JSON-RPC client that owns the      *)
(* codex mcp-server subprocess (CodexMCPClient) and the stream adapter of  *)
(* CodexLanguageModel.doStream that turns the subprocess's notifications   *)
(* and the tools/call result into an ordered frame sequence.               *)
(*                                                                         *)
(* Strings are sequences of UTF-16 code units (integers).  Every handler   *)
(* of the program is an operator from a world record (all program state)   *)
(* to the world after the handler has returned, so that a handler's nested *)
(* calls (handleExit -> handleError -> error listener -> finishStream ->   *)
(* client.close) are part of the one step that runs it.                    *)
(***************************************************************************)
EXTENDS Integers, Sequences, FiniteSets, TLC

VARIABLES
    client,      \* CodexMCPClient fields
    child,       \* the subprocess handle, its stdin and the stdout reader
    wire,        \* messages written to the subprocess's stdin, in order
    promises,    \* promises[id + 1]: the promise sendRequest made for request id
    initPromise, \* the promise held in client.initializing
    signals,     \* per task: its AbortSignal and the listeners added to it
    tasks,       \* per task: the async call chain (initialize/callCodex/start)
    stream,      \* the local variables of the ReadableStream's start()
    frames,      \* the parts enqueued on the stream controller, in order
    controller,  \* the stream controller: closed or not
    uncaught,    \* exceptions that escaped a handler into the event loop
    nLines,      \* inbound lines handled so far
    heard,       \* the lines delivered by HeardLine, in order (history)
    delivered,   \* the listener calls made for the latest line of heard, in order
    last,        \* the event handled by the latest step
    patchApplied, \* monkeyPatch: the module-level flag
    patchPromise, \* monkeyPatch: the attempt in flight (0 is null)
    attempts,    \* the promise chains made by applyProviderFactoryPatch, in order
    calls,       \* the applyProviderFactoryPatch calls made and the promise each got
    Provider,    \* the Provider modules: the imported one and the injected ones
    patchState,  \* the state created by the patch: providers and the models Map
    requests,    \* the patched getModel calls, each an async call chain
    now,         \* Date.now()
    extraction   \* an extractFactory call: its arguments and what it returned or threw

clientVars == <<client, child, wire, promises, initPromise, signals, tasks, stream,
                frames, controller, uncaught, nLines, heard, delivered, last>>

patchVars == <<patchApplied, patchPromise, attempts, calls, Provider, patchState,
               requests, now>>

vars == <<clientVars, patchVars, extraction>>

-----------------------------------------------------------------------------
(* Bounds *)

MaxLines == 3
MaxHeard == 3

-----------------------------------------------------------------------------
(* Strings: sequences of code units *)

TAB == 9
LF == 10
CR == 13
SPACE == 32
STAR == 42
REPLACEMENT == 65533

NoId == 0 - 1

\* ECMAScript WhiteSpace and LineTerminator code units (String.prototype.trim, \s)
IsSpace(c) ==
    c \in {9, 10, 11, 12, 13, 32, 160, 5760, 8232, 8233, 8239, 8287, 12288, 65279}
    \/ (c >= 8192 /\ c <= 8202)

RECURSIVE Concat(_)
Concat(ss) == IF ss = <<>> THEN <<>> ELSE Head(ss) \o Concat(Tail(ss))

IsPrefix(a, b) == Len(a) <= Len(b) /\ SubSeq(b, 1, Len(a)) = a

Digit(n) == 48 + n

RECURSIVE DecimalString(_)
\* String(n) for a non-negative integer n
DecimalString(n) ==
    IF n < 10 THEN <<Digit(n)>> ELSE DecimalString(n \div 10) \o <<Digit(n % 10)>>

\* a request id as it appears in a message: a number or a string
NumId(n) == [isString |-> FALSE, n |-> n, s |-> <<>>]
StrId(s) == [isString |-> TRUE, n |-> 0, s |-> s]

toRequestKey(id) == IF id.isString THEN id.s ELSE DecimalString(id.n)

-----------------------------------------------------------------------------
(* Errors *)

MkError(name, message, code, signal, text) ==
    [name |-> name, message |-> message, code |-> code, signal |-> signal, text |-> text]

AbortError == MkError("AbortError", "Aborted", "", "", <<>>)
PlainError(message, text) == MkError("Error", message, "", "", text)

NoError == MkError("", "", "", "", <<>>)

-----------------------------------------------------------------------------
(* The world: all program state, as the handlers read and write it *)

World ==
    [client |-> client, child |-> child, wire |-> wire, promises |-> promises,
     initPromise |-> initPromise, signals |-> signals, tasks |-> tasks,
     stream |-> stream, frames |-> frames, controller |-> controller,
     uncaught |-> uncaught, thrown |-> FALSE, delivered |-> <<>>]

Commit(w) ==
    /\ client' = w.client
    /\ child' = w.child
    /\ wire' = w.wire
    /\ promises' = w.promises
    /\ initPromise' = w.initPromise
    /\ signals' = w.signals
    /\ tasks' = w.tasks
    /\ stream' = w.stream
    /\ frames' = w.frames
    /\ controller' = w.controller
    /\ uncaught' = IF w.thrown THEN w.uncaught + 1 ELSE w.uncaught
    /\ UNCHANGED <<patchVars, extraction>>

-----------------------------------------------------------------------------
(* CodexMCPClient: writing *)

Request(id, method) == [kind |-> "request", method |-> method, id |-> id]
Notify(method, requestId) == [kind |-> "notification", method |-> method, id |-> requestId]

\* the message is written whether the session is closed or not
writeMessage_WhenClosed(w, message) == [w EXCEPT !.wire = Append(@, message)]

writeMessage(w, message) ==
    IF w.client.closed THEN w
    ELSE [w EXCEPT !.wire = Append(@, message)]

sendNotification(w, method, requestId) == writeMessage(w, Notify(method, requestId))

close(w) ==
    IF w.client.closed THEN w
    ELSE [w EXCEPT !.client.closed = TRUE,
                   !.child.readerClosed = @ + 1,
                   !.child.stdinEnded = @ + 1,
                   !.child.kills = @ + 1]

-----------------------------------------------------------------------------
(* The stream controller and the frames (stream parts) *)

\* the task that runs the ReadableStream's start(); the other tasks are 1, 2, ...
StreamTask == 0

Part(type, id, delta, source, finishReason, error) ==
    [type |-> type, id |-> id, delta |-> delta, source |-> source,
     finishReason |-> finishReason, error |-> error]

TextStart(id) == Part("text-start", id, <<>>, "", "", NoError)
TextDelta(id, delta, source) == Part("text-delta", id, delta, source, "", NoError)
TextEnd(id) == Part("text-end", id, <<>>, "", "", NoError)
ErrorPart(error) == Part("error", "", <<>>, "", "", error)
FinishPart(reason) == Part("finish", "", <<>>, "", reason, NoError)

\* continue with F unless an exception is propagating
Then(w, F(_)) == IF w.thrown THEN w ELSE F(w)

\* ReadableStreamDefaultController.enqueue: a TypeError once the stream is closed
enqueue(w, part) ==
    IF w.controller.closed THEN [w EXCEPT !.thrown = TRUE]
    ELSE [w EXCEPT !.frames = Append(@, part)]

\* ReadableStreamDefaultController.close: a TypeError once the stream is closed
controllerClose(w) ==
    IF w.controller.closed THEN [w EXCEPT !.thrown = TRUE]
    ELSE [w EXCEPT !.controller.closed = TRUE]

-----------------------------------------------------------------------------
(* doStream start(): the helpers *)

\* x ?? d for an option that is "absent", "true" or "false"
OrDefault(x, d) == IF x = "absent" THEN d ELSE (x = "true")

\* command output is streamed unless it is switched off
includeCommandOutput_DefaultOn(providerOptions) ==
    OrDefault(providerOptions.streamCommandOutput, TRUE)

includeCommandOutput(providerOptions) == OrDefault(providerOptions.streamCommandOutput, FALSE)
includeReasoning(providerOptions) == OrDefault(providerOptions.streamReasoning, TRUE)
includeMessageSource(providerOptions) == OrDefault(providerOptions.includeMessageSource, FALSE)

\* a start frame for every chunk: the textStarted test left out
ensureTextStart_Unguarded(w) ==
    enqueue([w EXCEPT !.stream.textStarted = TRUE], TextStart("codex-text"))

ensureTextStart(w) ==
    IF w.stream.textStarted THEN w
    ELSE enqueue([w EXCEPT !.stream.textStarted = TRUE], TextStart("codex-text"))

ensureExecStreamStart(w) ==
    IF w.stream.execStreamStarted THEN w
    ELSE enqueue([w EXCEPT !.stream.execStreamStarted = TRUE], TextStart("codex-exec"))

ensureReasoningStart(w) ==
    IF w.stream.reasoningStreamStarted THEN w
    ELSE enqueue([w EXCEPT !.stream.reasoningStreamStarted = TRUE],
                 TextStart("codex-reasoning"))

\* the `[source] ` prefix of a delta is kept as the delta's source field
DeltaSource(w, source) == IF w.stream.includeMessageSource THEN source ELSE ""

pushText(w, chunk, source) ==
    IF chunk = <<>> THEN w
    ELSE Then(ensureTextStart(w),
              LAMBDA x : enqueue(x, TextDelta("codex-text", chunk, DeltaSource(x, source))))

RECURSIVE sharedPrefixFrom(_, _, _)
sharedPrefixFrom(a, b, index) ==
    IF index < Len(a) /\ index < Len(b) /\ a[index + 1] = b[index + 1]
    THEN sharedPrefixFrom(a, b, index + 1)
    ELSE index

\* no prefix is ever shared: a full value is emitted whole
sharedPrefixLength_Zero(a, b) == 0

sharedPrefixLength(a, b) == sharedPrefixFrom(a, b, 0)

\* String.prototype.slice(from) for 0 <= from
Slice(s, from) == SubSeq(s, from + 1, Len(s))

pushExecText(w, chunk, source) ==
    IF chunk = <<>> THEN w
    ELSE Then(ensureExecStreamStart(w),
              LAMBDA x : enqueue(x, TextDelta("codex-exec", chunk, DeltaSource(x, source))))

RECURSIVE TrimStart(_)
TrimStart(s) == IF s # <<>> /\ IsSpace(Head(s)) THEN TrimStart(Tail(s)) ELSE s

RECURSIVE TrimEnd(_)
TrimEnd(s) ==
    IF s # <<>> /\ IsSpace(s[Len(s)]) THEN TrimEnd(SubSeq(s, 1, Len(s) - 1)) ELSE s

Trim(s) == TrimEnd(TrimStart(s))

\* replace(/\*/g, "")
RemoveStars(s) == SelectSeq(s, LAMBDA c : c # STAR)

RECURSIVE CollapseSpace(_)
\* replace(/\s+/g, " ")
CollapseSpace(s) ==
    IF s = <<>> THEN <<>>
    ELSE IF IsSpace(Head(s))
         THEN <<SPACE>> \o CollapseSpace(TrimStart(s))
         ELSE <<Head(s)>> \o CollapseSpace(Tail(s))

normalizeReasoning(value) == CollapseSpace(RemoveStars(Trim(value)))

\* the comparison with the last normalized chunk left out
pushReasoning_NoDedup(w, chunk, source) ==
    LET normalized == normalizeReasoning(chunk) IN
    IF chunk = <<>> \/ ~w.stream.includeReasoning THEN w
    ELSE IF normalized = <<>> /\ chunk = <<LF>> /\ w.stream.lastReasoningChunk = <<LF>> THEN w
    ELSE IF normalized = <<>> /\ w.stream.lastReasoningChunk = chunk THEN w
    ELSE Then(ensureReasoningStart(w), LAMBDA x :
         Then(enqueue([x EXCEPT !.stream.reasoningDeltaSeen = TRUE],
                      TextDelta("codex-reasoning", chunk, DeltaSource(x, source))),
              LAMBDA y :
                  [y EXCEPT !.stream.lastReasoningChunk = chunk,
                            !.stream.lastReasoningNormalized =
                                IF normalized # <<>> THEN normalized ELSE @]))

\* a chunk of white space is emitted even when it repeats the last chunk
pushReasoning_RepeatBlank(w, chunk, source) ==
    LET normalized == normalizeReasoning(chunk) IN
    IF chunk = <<>> \/ ~w.stream.includeReasoning THEN w
    ELSE IF normalized # <<>> /\ normalized = w.stream.lastReasoningNormalized THEN w
    ELSE Then(ensureReasoningStart(w), LAMBDA x :
         Then(enqueue([x EXCEPT !.stream.reasoningDeltaSeen = TRUE],
                      TextDelta("codex-reasoning", chunk, DeltaSource(x, source))),
              LAMBDA y :
                  [y EXCEPT !.stream.lastReasoningChunk = chunk,
                            !.stream.lastReasoningNormalized =
                                IF normalized # <<>> THEN normalized ELSE @]))

pushReasoning(w, chunk, source) ==
    LET normalized == normalizeReasoning(chunk) IN
    IF chunk = <<>> \/ ~w.stream.includeReasoning THEN w
    ELSE IF normalized = <<>> /\ chunk = <<LF>> /\ w.stream.lastReasoningChunk = <<LF>> THEN w
    ELSE IF normalized # <<>> /\ normalized = w.stream.lastReasoningNormalized THEN w
    ELSE IF normalized = <<>> /\ w.stream.lastReasoningChunk = chunk THEN w
    ELSE Then(ensureReasoningStart(w), LAMBDA x :
         Then(enqueue([x EXCEPT !.stream.reasoningDeltaSeen = TRUE],
                      TextDelta("codex-reasoning", chunk, DeltaSource(x, source))),
              LAMBDA y :
                  [y EXCEPT !.stream.lastReasoningChunk = chunk,
                            !.stream.lastReasoningNormalized =
                                IF normalized # <<>> THEN normalized ELSE @]))

\* the client is never closed by the adapter
closeClient_Never(w) == [w EXCEPT !.stream.clientClosed = TRUE]

closeClient(w) ==
    IF w.stream.clientClosed THEN w
    ELSE close([w EXCEPT !.stream.clientClosed = TRUE])

\* removeEventListener(type, fn) on a task's AbortSignal
RemoveListener(w, t, fn, id) ==
    [w EXCEPT !.signals[t].listeners = SelectSeq(@, LAMBDA l : ~(l.fn = fn /\ l.id = id))]

AddListener(w, t, fn, id) ==
    IF \E i \in 1..Len(w.signals[t].listeners) :
           w.signals[t].listeners[i] = [fn |-> fn, id |-> id]
    THEN w
    ELSE [w EXCEPT !.signals[t].listeners = Append(@, [fn |-> fn, id |-> id])]

\* abortCleanup(); abortCleanup = () => { }
abortCleanup(w) ==
    LET w1 == IF w.stream.abortCleanup = "remove"
              THEN RemoveListener(w, StreamTask, "abortHandler", NoId)
              ELSE w
    IN [w1 EXCEPT !.stream.abortCleanup = "noop"]

EndIfOpen(w, started, completed, id) ==
    IF w.stream[started] /\ ~w.stream[completed]
    THEN Then(enqueue(w, TextEnd(id)), LAMBDA x : [x EXCEPT !.stream[completed] = TRUE])
    ELSE w

\* the finish frame is enqueued but the stream is left open
finishStream_NoClose(w, reason, error) ==
    IF w.stream.finished THEN w
    ELSE
    Then(abortCleanup([w EXCEPT !.stream.finished = TRUE]), LAMBDA w1 :
    Then(IF error # NoError THEN enqueue(w1, ErrorPart(error)) ELSE w1, LAMBDA w2 :
    Then(EndIfOpen(w2, "textStarted", "textCompleted", "codex-text"), LAMBDA w3 :
    Then(EndIfOpen(w3, "execStreamStarted", "execStreamCompleted", "codex-exec"), LAMBDA w4 :
    Then(EndIfOpen(w4, "reasoningStreamStarted", "reasoningStreamCompleted",
                   "codex-reasoning"), LAMBDA w5 :
    Then(enqueue(w5, FinishPart(reason)), LAMBDA w6 :
    closeClient(w6)))))))

\* the error frame is enqueued after the end frames of the channels
finishStream_ErrorLast(w, reason, error) ==
    IF w.stream.finished THEN w
    ELSE
    Then(abortCleanup([w EXCEPT !.stream.finished = TRUE]), LAMBDA w1 :
    Then(EndIfOpen(w1, "textStarted", "textCompleted", "codex-text"), LAMBDA w2 :
    Then(EndIfOpen(w2, "execStreamStarted", "execStreamCompleted", "codex-exec"), LAMBDA w3 :
    Then(EndIfOpen(w3, "reasoningStreamStarted", "reasoningStreamCompleted",
                   "codex-reasoning"), LAMBDA w4 :
    Then(IF error # NoError THEN enqueue(w4, ErrorPart(error)) ELSE w4, LAMBDA w5 :
    Then(enqueue(w5, FinishPart(reason)), LAMBDA w6 :
    Then(controllerClose(w6), LAMBDA w7 :
    closeClient(w7))))))))

finishStream(w, reason, error) ==
    IF w.stream.finished THEN w
    ELSE
    Then(abortCleanup([w EXCEPT !.stream.finished = TRUE]), LAMBDA w1 :
    Then(IF error # NoError THEN enqueue(w1, ErrorPart(error)) ELSE w1, LAMBDA w2 :
    Then(EndIfOpen(w2, "textStarted", "textCompleted", "codex-text"), LAMBDA w3 :
    Then(EndIfOpen(w3, "execStreamStarted", "execStreamCompleted", "codex-exec"), LAMBDA w4 :
    Then(EndIfOpen(w4, "reasoningStreamStarted", "reasoningStreamCompleted",
                   "codex-reasoning"), LAMBDA w5 :
    Then(enqueue(w5, FinishPart(reason)), LAMBDA w6 :
    Then(controllerClose(w6), LAMBDA w7 :
    closeClient(w7))))))))

-----------------------------------------------------------------------------
(* Command output: base64 and printable text *)

\* a JSON value that may or may not be a string
Str(s) == [str |-> TRUE, s |-> s]
NotString == [str |-> FALSE, s |-> <<>>]

isLikelyText(value) ==
    \A index \in 1..Len(value) :
        LET code == value[index] IN
        /\ code # REPLACEMENT
        /\ ~(code < SPACE /\ code # TAB /\ code # LF /\ code # CR)

\* index of a code unit in the base64 alphabet A-Z a-z 0-9 + /, or NoId
Base64Index(c) ==
    IF c >= 65 /\ c <= 90 THEN c - 65
    ELSE IF c >= 97 /\ c <= 122 THEN c - 97 + 26
    ELSE IF c >= 48 /\ c <= 57 THEN c - 48 + 52
    ELSE IF c = 43 THEN 62
    ELSE IF c = 47 THEN 63
    ELSE NoId

RECURSIVE StripPadding(_)
StripPadding(s) ==
    IF s # <<>> /\ s[Len(s)] = 61 THEN StripPadding(SubSeq(s, 1, Len(s) - 1)) ELSE s

\* /^[A-Za-z0-9+/]+={0,2}$/
base64Pattern(s) ==
    LET body == StripPadding(s) IN
    /\ body # <<>>
    /\ Len(s) - Len(body) <= 2
    /\ \A i \in 1..Len(body) : Base64Index(body[i]) # NoId

RECURSIVE Base64Bytes(_)
\* the bytes of the base64 digits (padding removed), as Buffer.from(s, "base64")
Base64Bytes(d) ==
    IF Len(d) >= 4
    THEN LET n == Base64Index(d[1]) * 262144 + Base64Index(d[2]) * 4096
                  + Base64Index(d[3]) * 64 + Base64Index(d[4])
         IN <<n \div 65536, (n \div 256) % 256, n % 256>> \o Base64Bytes(SubSeq(d, 5, Len(d)))
    ELSE IF Len(d) = 3
    THEN LET n == Base64Index(d[1]) * 4096 + Base64Index(d[2]) * 64 + Base64Index(d[3])
         IN <<n \div 1024, (n \div 4) % 256>>
    ELSE IF Len(d) = 2
    THEN <<(Base64Index(d[1]) * 64 + Base64Index(d[2])) \div 16>>
    ELSE <<>>

IsCont(b) == b >= 128 /\ b <= 191

RECURSIVE Utf8Decode(_)
\* Buffer.toString("utf-8"): code units, U+FFFD for each ill-formed subsequence
Utf8Decode(b) ==
    IF b = <<>> THEN <<>>
    ELSE LET b1 == b[1]
             has2 == Len(b) >= 2
             has3 == Len(b) >= 3
             has4 == Len(b) >= 4
             rest(k) == Utf8Decode(SubSeq(b, k + 1, Len(b)))
             lo2 == IF b1 = 224 THEN 160 ELSE IF b1 = 240 THEN 144 ELSE 128
             hi2 == IF b1 = 237 THEN 159 ELSE IF b1 = 244 THEN 143 ELSE 191
             ok2 == has2 /\ b[2] >= lo2 /\ b[2] <= hi2
         IN
         IF b1 < 128 THEN <<b1>> \o rest(1)
         ELSE IF b1 >= 194 /\ b1 <= 223
              THEN IF has2 /\ IsCont(b[2])
                   THEN <<(b1 - 192) * 64 + (b[2] - 128)>> \o rest(2)
                   ELSE <<REPLACEMENT>> \o rest(1)
         ELSE IF b1 >= 224 /\ b1 <= 239
              THEN IF ok2 /\ has3 /\ IsCont(b[3])
                   THEN <<(b1 - 224) * 4096 + (b[2] - 128) * 64 + (b[3] - 128)>> \o rest(3)
                   ELSE IF ok2 THEN <<REPLACEMENT>> \o rest(2)
                   ELSE <<REPLACEMENT>> \o rest(1)
         ELSE IF b1 >= 240 /\ b1 <= 244
              THEN IF ok2 /\ has3 /\ IsCont(b[3]) /\ has4 /\ IsCont(b[4])
                   THEN LET cp == (b1 - 240) * 262144 + (b[2] - 128) * 4096
                                  + (b[3] - 128) * 64 + (b[4] - 128) - 65536
                        IN <<55296 + (cp \div 1024), 56320 + (cp % 1024)>> \o rest(4)
                   ELSE IF ok2 /\ has3 /\ IsCont(b[3]) THEN <<REPLACEMENT>> \o rest(3)
                   ELSE IF ok2 THEN <<REPLACEMENT>> \o rest(2)
                   ELSE <<REPLACEMENT>> \o rest(1)
         ELSE <<REPLACEMENT>> \o rest(1)

\* the chunk is passed as it is whenever it is printable: no base64 decoding
decodeExecChunk_RawOnly(raw) ==
    IF raw = <<>> THEN NotString
    ELSE IF isLikelyText(raw) THEN Str(raw) ELSE NotString

decodeExecChunk(raw) ==
    IF raw = <<>> THEN NotString
    ELSE LET compressed == SelectSeq(raw, LAMBDA c : ~IsSpace(c))
             decoded == Utf8Decode(Base64Bytes(StripPadding(compressed)))
         IN
         IF /\ Len(compressed) > 0
            /\ Len(compressed) % 4 = 0
            /\ base64Pattern(compressed)
            /\ decoded # <<>>
            /\ isLikelyText(decoded)
         THEN Str(decoded)
         ELSE IF isLikelyText(raw) THEN Str(raw) ELSE NotString

-----------------------------------------------------------------------------
(* doStream start(): the notification listener *)

\* an inbound notification: method (its "/"-separated segments), params._meta
\* and params.msg
Notification(method, meta, msg) == [method |-> method, meta |-> meta, msg |-> msg]

\* params._meta.requestId: absent, a number, a string or another JSON value
NoMeta == [has |-> FALSE, kind |-> "other", n |-> 0, s |-> <<>>]
MetaNumber(n) == [has |-> TRUE, kind |-> "number", n |-> n, s |-> <<>>]
MetaString(s) == [has |-> TRUE, kind |-> "string", n |-> 0, s |-> s]
MetaOther == [has |-> TRUE, kind |-> "other", n |-> 0, s |-> <<>>]

TypeName(v) == [str |-> TRUE, v |-> v]
NoTypeName == [str |-> FALSE, v |-> ""]

Msg(type, delta, message, text, chunk, last_agent_message) ==
    [type |-> type, delta |-> delta, message |-> message, text |-> text,
     chunk |-> chunk, last_agent_message |-> last_agent_message]

\* params.msg ?? {}
EmptyMsg == Msg(NoTypeName, NotString, NotString, NotString, NotString, NotString)

\* notification.method.startsWith("codex/event"), segments taken as atoms
startsWithCodexEvent(method) ==
    Len(method) >= 2 /\ method[1] = "codex" /\ method[2] = "event"

\* notification.method.split("/").at(-1) ?? ""
LastSegment(method) == IF method = <<>> THEN "" ELSE method[Len(method)]

IsDigit(c) == c >= 48 /\ c <= 57

RECURSIVE DigitsValue(_, _)
DigitsValue(s, acc) ==
    IF s # <<>> /\ IsDigit(Head(s)) THEN DigitsValue(Tail(s), acc * 10 + (Head(s) - 48))
    ELSE acc

\* Number.parseInt(s, 10): finite is FALSE for NaN
parseInt(s) ==
    LET t == TrimStart(s)
        negative == t # <<>> /\ Head(t) = 45
        signed == t # <<>> /\ Head(t) \in {43, 45}
        digits == IF signed THEN Tail(t) ELSE t
        magnitude == DigitsValue(digits, 0)
    IN IF digits # <<>> /\ IsDigit(Head(digits))
       THEN [finite |-> TRUE, n |-> IF negative THEN 0 - magnitude ELSE magnitude]
       ELSE [finite |-> FALSE, n |-> 0]

\* the requestId filter: TRUE when the notification is for another request
OtherRequest(w, meta) ==
    LET metaRequestId ==
            IF meta.kind = "number" THEN [finite |-> TRUE, n |-> meta.n]
            ELSE IF meta.kind = "string" THEN parseInt(meta.s)
            ELSE [finite |-> FALSE, n |-> 0]
    IN /\ w.stream.callRequestId # NoId
       /\ meta.has
       /\ metaRequestId.finite
       /\ metaRequestId.n # w.stream.callRequestId

EventType(n) == IF n.msg.type.str THEN n.msg.type.v ELSE LastSegment(n.method)

onAgentMessage(w, message) ==
    IF message = <<>> THEN [w EXCEPT !.stream.lastAgentMessage = message]
    ELSE LET pushed ==
                 IF ~w.stream.textStarted THEN pushText(w, message, "agent_message")
                 ELSE LET prefixLength == sharedPrefixLength(w.stream.lastAgentMessage, message)
                          delta == Slice(message, prefixLength)
                      IN IF delta # <<>>
                         THEN pushText(w, delta, "agent_message_delta_from_full")
                         ELSE w
         IN Then(pushed, LAMBDA x : [x EXCEPT !.stream.lastAgentMessage = message])

onAgentReasoning(w, text) ==
    IF text = <<>> THEN [w EXCEPT !.stream.lastReasoningMessage = text]
    ELSE LET pushed ==
                 IF ~w.stream.reasoningStreamStarted
                 THEN pushReasoning(w, text, "agent_reasoning")
                 ELSE IF ~w.stream.reasoningDeltaSeen
                 THEN pushReasoning(w, text, "agent_reasoning")
                 ELSE LET prefixLength ==
                              sharedPrefixLength(w.stream.lastReasoningMessage, text)
                          delta == Slice(text, prefixLength)
                      IN IF delta # <<>>
                         THEN pushReasoning(w, delta, "agent_reasoning_delta_from_full")
                         ELSE w
         IN Then(pushed, LAMBDA x : [x EXCEPT !.stream.lastReasoningMessage = text])

onTaskComplete(w, msg) ==
    LET w1 == [w EXCEPT !.stream.finishedViaNotification = TRUE]
        lam == msg.last_agent_message
        pushed == IF ~w1.stream.textStarted /\ lam.str /\ lam.s # <<>> /\ Trim(lam.s) # <<>>
                  THEN pushText(w1, lam.s, "task_complete")
                  ELSE w1
    IN Then(pushed, LAMBDA x : finishStream(x, "stop", NoError))

onTerminalError(w, msg, fallback) ==
    LET message == IF msg.message.str THEN PlainError("notification", msg.message.s)
                   ELSE PlainError(fallback, <<>>)
    IN finishStream([w EXCEPT !.stream.finishedViaNotification = TRUE], "error", message)

\* the listener passed to client.onNotification by start()
streamOnNotification(w, n) ==
    LET msg == n.msg
        type == EventType(n)
    IN
    IF ~startsWithCodexEvent(n.method) THEN w
    ELSE IF OtherRequest(w, n.meta) THEN w
    ELSE IF type = "agent_message_delta" /\ msg.delta.str /\ msg.delta.s # <<>>
    THEN Then(pushText(w, msg.delta.s, "agent_message_delta"),
              LAMBDA x : [x EXCEPT !.stream.lastAgentMessage = @ \o msg.delta.s])
    ELSE IF type = "agent_message" /\ msg.message.str
    THEN onAgentMessage(w, msg.message.s)
    ELSE IF w.stream.includeReasoning /\ type = "agent_reasoning_delta"
            /\ msg.delta.str /\ msg.delta.s # <<>>
    THEN Then(pushReasoning(w, msg.delta.s, "agent_reasoning_delta"),
              LAMBDA x : [x EXCEPT !.stream.lastReasoningMessage = @ \o msg.delta.s])
    ELSE IF w.stream.includeReasoning /\ type = "agent_reasoning" /\ msg.text.str
    THEN onAgentReasoning(w, msg.text.s)
    ELSE IF w.stream.includeReasoning /\ type = "agent_reasoning_section_break"
    THEN Then(pushReasoning(w, <<LF>>, "agent_reasoning_section_break"),
              LAMBDA x : [x EXCEPT !.stream.lastReasoningMessage = @ \o <<LF>>])
    ELSE IF w.stream.includeCommandOutput /\ type = "exec_command_output_delta"
            /\ msg.chunk.str
    THEN LET decoded == decodeExecChunk(msg.chunk.s)
         IN IF decoded.str /\ decoded.s # <<>>
            THEN pushExecText(w, decoded.s, "exec_command_output_delta")
            ELSE w
    ELSE IF type = "task_complete" THEN onTaskComplete(w, msg)
    ELSE IF type = "stream_error" THEN onTerminalError(w, msg, "Codex stream error")
    ELSE IF type = "error" THEN onTerminalError(w, msg, "Codex error")
    ELSE w

\* the listener passed to client.onError by start()
streamOnError(w, error) == finishStream(w, "error", error)

\* the listener passed to client.onExit by start()
streamOnExit(w, code, signal) ==
    IF w.stream.finished THEN w
    ELSE finishStream(w, "error",
                      MkError("Error", "codex mcp-server exited unexpectedly", code, signal, <<>>))

\* the abort finishes the stream without the AbortError frame
abortHandler_NoError(w) == finishStream(w, "error", NoError)

abortHandler(w) == finishStream(w, "error", AbortError)

-----------------------------------------------------------------------------
(* CodexMCPClient: promises, listeners, inbound events *)

\* a tools/call or initialize result: null, a non-object value, or an object
Block(isObject, type, text) == [isObject |-> isObject, type |-> type, text |-> text]

Result(kind, hasContent, contentIsArray, content, hasToolResult, toolResultIsObject, toolResultText, isError, hasErrorKey) ==
    [kind |-> kind, hasContent |-> hasContent, contentIsArray |-> contentIsArray,
     content |-> content, hasToolResult |-> hasToolResult,
     toolResultIsObject |-> toolResultIsObject, toolResultText |-> toolResultText,
     isError |-> isError, hasErrorKey |-> hasErrorKey]

NullResult == Result("null", FALSE, FALSE, <<>>, FALSE, FALSE, NotString, FALSE, FALSE)

\* the promise sendRequest returns; task is the task whose signal it listens to
Promise(id, method, signalOf) ==
    [id |-> id, method |-> method, signalOf |-> signalOf, state |-> "pending",
     value |-> NullResult, error |-> NoError]

Settled(promise) == promise.state # "pending"

\* resolve/reject of a promise: only the first call settles it
Resolve(w, p, value) ==
    IF Settled(w.promises[p]) THEN w
    ELSE [w EXCEPT !.promises[p].state = "resolved", !.promises[p].value = value]

Reject(w, p, error) ==
    IF Settled(w.promises[p]) THEN w
    ELSE [w EXCEPT !.promises[p].state = "rejected", !.promises[p].error = error]

PendingKeys(w) == {e.key : e \in w.client.pending}

PendingEntry(w, key) == CHOOSE e \in w.client.pending : e.key = key

\* this.pending.delete(key)
PendingDelete(w, key) ==
    [w EXCEPT !.client.pending = {e \in @ : e.key # key}]

\* this.pending.set(key, entry)
PendingSet(w, key, p) ==
    [w EXCEPT !.client.pending = {e \in @ : e.key # key} \cup {[key |-> key, p |-> p]}]

\* the cleanup closure of the pending entry of promise p
cleanup(w, p) ==
    IF w.promises[p].signalOf = NoId THEN w
    ELSE RemoveListener(w, w.promises[p].signalOf, "onAbort", p)

\* the resolve / reject closures of the pending entry of promise p
entryResolve(w, p, value) == Resolve(cleanup(w, p), p, value)
entryReject(w, p, error) == Reject(cleanup(w, p), p, error)

\* the abort rejects the promise but leaves the entry in the pending map
onAbort_KeepPending(w, p) ==
    LET id == w.promises[p].id
        w2 == sendNotification(w, "notifications/cancelled", id)
    IN Reject(w2, p, AbortError)

\* the onAbort closure of promise p
onAbort(w, p) ==
    LET id == w.promises[p].id
        w1 == PendingDelete(w, toRequestKey(NumId(id)))
        w2 == sendNotification(w1, "notifications/cancelled", id)
    IN Reject(w2, p, AbortError)

\* a registered listener: the adapter's, or the wrapper callCodex registers
Handler(owner, fn) == [owner |-> owner, fn |-> fn]

\* handler(notification): the call is recorded, then the listener runs
callNotificationHandler(w, h, n) ==
    LET w1 == [w EXCEPT !.delivered = Append(@, [handler |-> h, notification |-> n])]
    IN IF h.fn = "stream" THEN streamOnNotification(w1, n) ELSE w1

callErrorHandler(w, h, error) ==
    IF h.fn = "stream" THEN streamOnError(w, error) ELSE w

callExitHandler(w, h, code, signal) ==
    IF h.fn = "stream" THEN streamOnExit(w, code, signal) ELSE w

RECURSIVE forEachNotificationHandler(_, _, _)
forEachNotificationHandler(w, hs, n) ==
    IF hs = <<>> THEN w
    ELSE Then(callNotificationHandler(w, Head(hs), n),
              LAMBDA x : forEachNotificationHandler(x, Tail(hs), n))

RECURSIVE forEachErrorHandler(_, _, _)
forEachErrorHandler(w, hs, error) ==
    IF hs = <<>> THEN w
    ELSE Then(callErrorHandler(w, Head(hs), error),
              LAMBDA x : forEachErrorHandler(x, Tail(hs), error))

RECURSIVE forEachExitHandler(_, _, _, _)
forEachExitHandler(w, hs, code, signal) ==
    IF hs = <<>> THEN w
    ELSE Then(callExitHandler(w, Head(hs), code, signal),
              LAMBDA x : forEachExitHandler(x, Tail(hs), code, signal))

RECURSIVE RejectEntries(_, _, _)
\* for (const [, pending] of this.pending) { pending.cleanup(); pending.reject(error) }
RejectEntries(w, entries, error) ==
    IF entries = {} THEN w
    ELSE LET e == CHOOSE x \in entries : TRUE
         IN RejectEntries(entryReject(cleanup(w, e.p), e.p, error), entries \ {e}, error)

handleError(w, error) ==
    IF w.client.closed THEN w
    ELSE Then(forEachErrorHandler(w, w.client.errorHandlers, error), LAMBDA w1 :
         LET w2 == RejectEntries(w1, w1.client.pending, error)
         IN [w2 EXCEPT !.client.pending = {}, !.client.closed = TRUE])

\* the message of the exit error: code ?? "null", the signal and the joined stderr
ExitError(code, signal, stderr) ==
    MkError("Error", "codex mcp-server exited with code", code, signal, stderr)

\* the exit error built without the buffered stderr text
handleExit_NoStderr(w, code, signal) ==
    IF w.client.closed THEN w
    ELSE Then(handleError(w, ExitError(code, signal, <<>>)), LAMBDA w1 :
              forEachExitHandler(w1, w1.client.exitHandlers, code, signal))

handleExit(w, code, signal) ==
    IF w.client.closed THEN w
    ELSE LET stderr == Concat(w.client.stderrChunks)
         IN Then(handleError(w, ExitError(code, signal, stderr)), LAMBDA w1 :
                 forEachExitHandler(w1, w1.client.exitHandlers, code, signal))

\* an inbound line: blank, not JSON, or a JSON value
JsonMessage(isObject, hasId, id, hasMethod, notification, hasError, errorMessage, errorData, hasResult, result) ==
    [isObject |-> isObject, hasId |-> hasId, id |-> id, hasMethod |-> hasMethod,
     notification |-> notification, hasError |-> hasError, errorMessage |-> errorMessage,
     errorData |-> errorData, hasResult |-> hasResult, result |-> result]

NoNotification == Notification(<<>>, NoMeta, EmptyMsg)

Line(kind, message) == [kind |-> kind, message |-> message]

NoMessage ==
    JsonMessage(FALSE, FALSE, NumId(0), FALSE, NoNotification, FALSE, "", <<>>, FALSE, NullResult)

ParseError == MkError("SyntaxError", "JSON.parse", "", "", <<>>)

\* new Error(data ? `${message}: ${JSON.stringify(data)}` : message)
ResponseError(message, data) == MkError("Error", message, "", "", data)

\* the answered entry is settled but stays in the pending map
handleLine_KeepEntry(w, line) ==
    LET message == line.message IN
    IF line.kind = "blank" THEN w
    ELSE IF line.kind = "garbage" THEN handleError(w, ParseError)
    ELSE IF ~message.isObject THEN w
    ELSE IF message.hasId
    THEN LET key == toRequestKey(message.id) IN
         IF key \notin PendingKeys(w) THEN w
         ELSE LET p == PendingEntry(w, key).p
                  w1 == cleanup(w, p)
              IN IF message.hasError
                 THEN entryReject(w1, p, ResponseError(message.errorMessage, message.errorData))
                 ELSE entryResolve(w1, p, IF message.hasResult THEN message.result
                                          ELSE NullResult)
    ELSE IF message.hasMethod
    THEN forEachNotificationHandler(w, w.client.notificationHandlers, message.notification)
    ELSE w

handleLine(w, line) ==
    LET message == line.message IN
    IF line.kind = "blank" THEN w
    ELSE IF line.kind = "garbage" THEN handleError(w, ParseError)
    ELSE IF ~message.isObject THEN w
    ELSE IF message.hasId
    THEN LET key == toRequestKey(message.id) IN
         IF key \notin PendingKeys(w) THEN w
         ELSE LET p == PendingEntry(w, key).p
                  w1 == PendingDelete(cleanup(w, p), key)
              IN IF message.hasError
                 THEN entryReject(w1, p, ResponseError(message.errorMessage, message.errorData))
                 ELSE entryResolve(w1, p, IF message.hasResult THEN message.result
                                          ELSE NullResult)
    ELSE IF message.hasMethod
    THEN forEachNotificationHandler(w, w.client.notificationHandlers, message.notification)
    ELSE w

\* the id is taken only once the signal is known not to be aborted
sendRequest_IdAfterAbortCheck(w, method, signalOf) ==
    LET id == w.client.requestCounter
        key == toRequestKey(NumId(id))
        p == Len(w.promises) + 1
        w1 == [w EXCEPT !.promises = Append(@, Promise(id, method, signalOf))]
    IN IF signalOf # NoId /\ w1.signals[signalOf].aborted
       THEN onAbort(w1, p)
       ELSE LET w2 == IF signalOf # NoId THEN AddListener(w1, signalOf, "onAbort", p)
                      ELSE w1
                w3 == [w2 EXCEPT !.client.requestCounter = @ + 1]
            IN writeMessage(PendingSet(w3, key, p), Request(id, method))

sendRequest(w, method, signalOf) ==
    LET id == w.client.requestCounter
        key == toRequestKey(NumId(id))
        p == Len(w.promises) + 1
        w1 == [w EXCEPT !.client.requestCounter = @ + 1,
                        !.promises = Append(@, Promise(id, method, signalOf))]
    IN IF signalOf # NoId /\ w1.signals[signalOf].aborted
       THEN onAbort(w1, p)
       ELSE LET w2 == IF signalOf # NoId THEN AddListener(w1, signalOf, "onAbort", p)
                      ELSE w1
            IN writeMessage(PendingSet(w2, key, p), Request(id, method))

-----------------------------------------------------------------------------
(* The async call chains: initialize(), callCodex() and the stream's start() *)

Task(op, phase, pc, p, error, value) ==
    [op |-> op, phase |-> phase, pc |-> pc, p |-> p, error |-> error, value |-> value]

NewTask(op) == Task(op, "", "new", 0, NoError, NullResult)

SetTask(w, t, pc, error) == [w EXCEPT !.tasks[t].pc = pc, !.tasks[t].error = error]

\* a caller that finds an attempt in flight starts its own
initialize_NoSharing(w, t) ==
    IF w.client.initialized THEN SetTask(w, t, "initReturn", NoError)
    ELSE LET w1 == [w EXCEPT !.client.initializing = TRUE,
                             !.initPromise = [state |-> "pending", error |-> NoError]]
             w2 == sendRequest(w1, "initialize", NoId)
         IN [SetTask(w2, t, "initInternal", NoError) EXCEPT !.tasks[t].p = Len(w2.promises)]

\* initialize() up to its first await, called by task t
initialize(w, t) ==
    IF w.client.initialized THEN SetTask(w, t, "initReturn", NoError)
    ELSE IF w.client.initializing
    THEN IF w.initPromise.state = "pending"
         THEN SetTask(w, t, "initShared", NoError)
         ELSE SetTask(w, t, "initSharedSettled", w.initPromise.error)
    ELSE LET w1 == [w EXCEPT !.client.initializing = TRUE,
                             !.initPromise = [state |-> "pending", error |-> NoError]]
             \* initializeInternal up to `await promise`
             w2 == sendRequest(w1, "initialize", NoId)
         IN [SetTask(w2, t, "initInternal", NoError) EXCEPT !.tasks[t].p = Len(w2.promises)]

InitializationError ==
    PlainError("Codex MCP server returned an error during initialization", <<>>)

\* the tasks awaiting client.initializing see it settle
SettleInitPromise(w, state, error) ==
    [w EXCEPT !.initPromise = [state |-> state, error |-> error],
              !.tasks = [u \in DOMAIN @ |->
                            IF @[u].pc = "initShared"
                            THEN [@[u] EXCEPT !.pc = "initSharedSettled", !.error = error]
                            ELSE @[u]]]

\* notifications/initialized is sent whatever the outcome of the request
initializeInternal_AlwaysNotify(w, t) ==
    LET promise == w.promises[w.tasks[t].p]
        w1 == sendNotification(w, "notifications/initialized", NoId)
        w2 == IF promise.state = "rejected"
              THEN SettleInitPromise(w1, "rejected", promise.error)
              ELSE SettleInitPromise(w1, "fulfilled", NoError)
    IN SetTask(w2, t, "initOwner", NoError)

\* initializeInternal after `await promise`
initializeInternal(w, t) ==
    LET promise == w.promises[w.tasks[t].p]
        result == promise.value
        w1 == IF promise.state = "rejected"
              THEN SettleInitPromise(w, "rejected", promise.error)
              ELSE IF result.kind = "object" /\ result.hasErrorKey
              THEN SettleInitPromise(w, "rejected", InitializationError)
              ELSE SettleInitPromise(
                       sendNotification(w, "notifications/initialized", NoId),
                       "fulfilled", NoError)
    IN SetTask(w1, t, "initOwner", NoError)

\* initialize() after `await this.initializing`, in the call that started the attempt
initializeOwner(w, t) ==
    LET w1 == IF w.initPromise.state = "fulfilled"
              THEN [w EXCEPT !.client.initialized = TRUE]
              ELSE w
        w2 == [w1 EXCEPT !.client.initializing = FALSE,
                         !.initPromise = [state |-> "none", error |-> NoError]]
    IN SetTask(w2, t, "initReturn", w.initPromise.error)

\* callCodex after `await this.initialize()`
callCodex(w, t) ==
    IF w.tasks[t].error # NoError THEN SetTask(w, t, "callReturn", w.tasks[t].error)
    ELSE LET w1 == [w EXCEPT !.client.notificationHandlers =
                                 Append(@, Handler(t, "callCodex"))]
             w2 == sendRequest(w1, "tools/call", t)
             p == Len(w2.promises)
             \* options.onRequestId(id)
             w3 == IF w2.tasks[t].op = "stream"
                   THEN [w2 EXCEPT !.stream.callRequestId = w2.promises[p].id]
                   ELSE w2
         IN [SetTask(w3, t, "callAwait", NoError) EXCEPT !.tasks[t].p = p]

\* callCodex after `await promise`: the finally block, then return or throw
callCodexSettled(w, t) ==
    LET promise == w.promises[w.tasks[t].p]
        w1 == [w EXCEPT !.client.notificationHandlers =
                            SelectSeq(@, LAMBDA h : h # Handler(t, "callCodex")),
                        !.tasks[t].value = promise.value]
    IN SetTask(w1, t, "callReturn",
               IF promise.state = "rejected" THEN promise.error ELSE NoError)

RECURSIVE FirstText(_)
\* the first block of content that is a text block with a string text
FirstText(content) ==
    IF content = <<>> THEN NotString
    ELSE LET block == Head(content)
         IN IF block.isObject /\ block.type = "text" /\ block.text.str THEN block.text
            ELSE FirstText(Tail(content))

extractTextFromResult(result) ==
    LET fromContent == IF result.kind = "object" /\ result.hasContent /\ result.contentIsArray
                       THEN FirstText(result.content)
                       ELSE NotString
    IN IF fromContent.str THEN fromContent.s
       ELSE IF /\ result.kind = "object"
               /\ result.hasToolResult
               /\ result.toolResultIsObject
               /\ result.toolResultText.str
       THEN result.toolResultText.s
       ELSE <<>>

RemoveHandler(hs, h) == SelectSeq(hs, LAMBDA x : x # h)

cleanupAll(w) ==
    LET h == Handler(StreamTask, "stream")
        w1 == [w EXCEPT !.client.notificationHandlers = RemoveHandler(@, h),
                        !.client.errorHandlers = RemoveHandler(@, h),
                        !.client.exitHandlers = RemoveHandler(@, h)]
    IN closeClient(abortCleanup(w1))

\* catch (error) { ... } of start()
\* the rejection is reported whatever a notification has already decided
startCatch_Unguarded(w, error) ==
    [w EXCEPT !.frames = Append(Append(@, ErrorPart(error)), FinishPart("error"))]

startCatch(w, error) ==
    IF w.stream.finishedViaNotification THEN w
    ELSE finishStream(w, "error", error)

ControllerTypeError == MkError("TypeError", "Invalid state: Controller is already closed",
                               "", "", <<>>)

\* the isError flag of the result is not consulted
startTry_IgnoreIsError(w, result) ==
    LET text == extractTextFromResult(result)
    IN IF w.stream.finishedViaNotification THEN w
       ELSE IF result.kind # "object"
       THEN startCatch(w, PlainError("Codex MCP tool returned an invalid result", <<>>))
       ELSE LET w1 == IF text # <<>> THEN pushText(w, text, "call_result") ELSE w
                w2 == Then(w1, LAMBDA x :
                          EndIfOpen(x, "textStarted", "textCompleted", "codex-text"))
                w3 == Then(w2, LAMBDA x : finishStream(x, "stop", NoError))
            IN IF w3.thrown THEN startCatch([w3 EXCEPT !.thrown = FALSE], ControllerTypeError)
               ELSE w3

\* the try block of start() after `await callPromise` resolved with result
startTry(w, result) ==
    LET text == extractTextFromResult(result)
        isError == result.kind = "object" /\ result.isError
    IN IF w.stream.finishedViaNotification THEN w
       ELSE IF result.kind # "object"
       THEN startCatch(w, PlainError("Codex MCP tool returned an invalid result", <<>>))
       ELSE IF isError
       THEN startCatch(w, IF text # <<>> THEN PlainError("tool", text)
                          ELSE PlainError("Codex MCP tool invocation failed", <<>>))
       ELSE LET w1 == IF text # <<>> THEN pushText(w, text, "call_result") ELSE w
                w2 == Then(w1, LAMBDA x :
                          EndIfOpen(x, "textStarted", "textCompleted", "codex-text"))
                w3 == Then(w2, LAMBDA x : finishStream(x, "stop", NoError))
            IN IF w3.thrown THEN startCatch([w3 EXCEPT !.thrown = FALSE], ControllerTypeError)
               ELSE w3

\* start() after `await client.initialize(...)`
startAfterInitialize(w, t) ==
    IF w.tasks[t].error # NoError
    THEN SetTask(cleanupAll(startCatch(w, w.tasks[t].error)), t, "done", w.tasks[t].error)
    ELSE initialize([w EXCEPT !.tasks[t].phase = "call"], t)

\* start() after `await callPromise`
startAfterCall(w, t) ==
    LET w1 == IF w.tasks[t].error # NoError THEN startCatch(w, w.tasks[t].error)
              ELSE startTry(w, w.tasks[t].value)
    IN SetTask(cleanupAll(w1), t, "done", w.tasks[t].error)

\* the signal is listened to but its aborted flag is not consulted
start_NoAbortedCheck(w, t) ==
    LET h == Handler(StreamTask, "stream")
        w1 == [w EXCEPT !.client.notificationHandlers = Append(@, h),
                        !.client.errorHandlers = Append(@, h),
                        !.client.exitHandlers = Append(@, h)]
        w2 == [AddListener(w1, t, "abortHandler", NoId)
                  EXCEPT !.stream.abortCleanup = "remove"]
    IN initialize([w2 EXCEPT !.tasks[t].phase = "init"], t)

\* start() up to its first await
start(w, t) ==
    LET h == Handler(StreamTask, "stream")
        w1 == [w EXCEPT !.client.notificationHandlers = Append(@, h),
                        !.client.errorHandlers = Append(@, h),
                        !.client.exitHandlers = Append(@, h)]
    IN IF w1.signals[t].aborted
       THEN SetTask(cleanupAll(abortHandler(w1)), t, "done", NoError)
       ELSE LET w2 == [AddListener(w1, t, "abortHandler", NoId)
                          EXCEPT !.stream.abortCleanup = "remove"]
            IN initialize([w2 EXCEPT !.tasks[t].phase = "init"], t)

\* AbortSignal dispatch: the listeners present when the signal fires, in order,
\* each removed before it runs ({ once: true })
RECURSIVE dispatchAbort(_, _, _)
dispatchAbort(w, t, ls) ==
    IF ls = <<>> THEN w
    ELSE LET l == Head(ls)
             present == \E i \in 1..Len(w.signals[t].listeners) : w.signals[t].listeners[i] = l
             w1 == RemoveListener(w, t, l.fn, l.id)
             w2 == IF ~present THEN w
                   ELSE IF l.fn = "abortHandler" THEN abortHandler(w1)
                   ELSE onAbort(w1, l.id)
         IN dispatchAbort(w2, t, Tail(ls))

abort(w, t) ==
    dispatchAbort([w EXCEPT !.signals[t].aborted = TRUE], t, w.signals[t].listeners)

-----------------------------------------------------------------------------
(* Initial state: the client has spawned the subprocess (constructor) *)

ProviderOptions(streamCommandOutput, streamReasoning, messageSource) ==
    [streamCommandOutput |-> streamCommandOutput, streamReasoning |-> streamReasoning,
     includeMessageSource |-> messageSource]

\* the local variables of start() as declared
StreamLocals(providerOptions) ==
    [finished |-> FALSE, finishedViaNotification |-> FALSE,
     textStarted |-> FALSE, textCompleted |-> FALSE,
     execStreamStarted |-> FALSE, execStreamCompleted |-> FALSE,
     reasoningStreamStarted |-> FALSE, reasoningStreamCompleted |-> FALSE,
     abortCleanup |-> "noop", callRequestId |-> NoId, clientClosed |-> FALSE,
     lastAgentMessage |-> <<>>, lastReasoningMessage |-> <<>>,
     reasoningDeltaSeen |-> FALSE, lastReasoningChunk |-> <<>>,
     lastReasoningNormalized |-> <<>>,
     includeCommandOutput |-> includeCommandOutput(providerOptions),
     includeReasoning |-> includeReasoning(providerOptions),
     includeMessageSource |-> includeMessageSource(providerOptions)]

ClientFields ==
    [closed |-> FALSE, requestCounter |-> 0, pending |-> {}, initializing |-> FALSE,
     initialized |-> FALSE, notificationHandlers |-> <<>>, errorHandlers |-> <<>>,
     exitHandlers |-> <<>>, stderrChunks |-> <<>>]

ChildProcess ==
    [readerClosed |-> 0, stdinEnded |-> 0, kills |-> 0, exited |-> FALSE,
     errored |-> FALSE, code |-> "", signal |-> ""]

Event(op, t, what) == [op |-> op, t |-> t, what |-> what]

Constructed(taskIds, op, providerOptions) ==
    /\ client = ClientFields
    /\ child = ChildProcess
    /\ wire = <<>>
    /\ promises = <<>>
    /\ initPromise = [state |-> "none", error |-> NoError]
    /\ signals = [t \in taskIds |-> [aborted |-> FALSE, listeners |-> <<>>]]
    /\ op # "" => tasks = [t \in taskIds |-> NewTask(op)]
    /\ stream = StreamLocals(providerOptions)
    /\ frames = <<>>
    /\ controller = [closed |-> FALSE]
    /\ uncaught = 0
    /\ nLines = 0
    /\ heard = <<>>
    /\ delivered = <<>>
    /\ last = Event("init", NoId, "")
    /\ patchApplied = FALSE
    /\ patchPromise = 0
    /\ attempts = <<>>
    /\ calls = <<>>
    /\ patchState = <<>>
    /\ requests = <<>>
    /\ now = 0

\* the session as constructed, and no Provider module within reach
InitWith(taskIds, op, providerOptions) ==
    /\ Constructed(taskIds, op, providerOptions)
    /\ Provider = <<>>
    /\ extraction = <<>>

-----------------------------------------------------------------------------
(* Steps *)

Step(w, op, t) ==
    /\ Commit(w)
    /\ last' = Event(op, t, "")
    /\ nLines' = nLines
    /\ heard' = heard
    /\ delivered' = <<>>

\* the call of task t has returned to its caller
Returned(t) ==
    \/ tasks[t].pc = "done"
    \/ tasks[t].op = "initialize" /\ tasks[t].pc = "initReturn"
    \/ tasks[t].op = "callCodex" /\ tasks[t].pc = "callReturn"

\* a line is handled between continuations: no async function is between an
\* await that has resumed and its next await
Quiescent ==
    \A t \in DOMAIN tasks :
        /\ \/ tasks[t].pc \in {"new", "initInternal", "initShared", "callAwait"}
           \/ Returned(t)
        /\ tasks[t].op = "stream" => tasks[t].pc # "new"

\* the ReadableStream constructor runs start()
Start(t) ==
    /\ tasks[t].op = "stream"
    /\ tasks[t].pc = "new"
    /\ Step(start(World, t), "start", t)

\* what handleLine does with a line: the event type of a codex/event notification
\* that passes the requestId filter, "response", "garbage", or "" (nothing)
LineKind(w, line) ==
    LET message == line.message IN
    IF line.kind = "blank" THEN ""
    ELSE IF line.kind = "garbage" THEN "garbage"
    ELSE IF ~message.isObject THEN ""
    ELSE IF message.hasId THEN "response"
    ELSE IF /\ message.hasMethod
            /\ startsWithCodexEvent(message.notification.method)
            /\ ~OtherRequest(w, message.notification.meta)
    THEN EventType(message.notification)
    ELSE ""

\* readline "line": handleLine has no closed guard, and lines of a chunk already
\* read are delivered after close() and after the exit event
\* the numeric id of a response line
LineId(line) ==
    IF line.kind = "json" /\ line.message.isObject /\ line.message.hasId
       /\ ~line.message.id.isString
    THEN line.message.id.n
    ELSE NoId

Deliver(line) ==
    /\ Quiescent
    /\ Commit(handleLine(World, line))
    /\ nLines' = nLines + 1
    /\ last' = Event("line", LineId(line), LineKind(World, line))

InboundLine(line) ==
    /\ nLines < MaxLines
    /\ Deliver(line)
    /\ heard' = heard
    /\ delivered' = <<>>

\* a line whose delivery is recorded in the history
HeardLine(line) ==
    /\ Len(heard) < MaxHeard
    /\ Deliver(line)
    /\ heard' = Append(heard, line)
    /\ delivered' = handleLine(World, line).delivered

\* the event loop takes the next macrotask: every continuation has run
Idle ==
    /\ Quiescent
    /\ \A t \in DOMAIN tasks :
           tasks[t].pc \in {"initInternal", "callAwait"} => ~Settled(promises[tasks[t].p])

\* child "exit"
ChildExit(code, signal) ==
    /\ Idle
    /\ ~child.exited
    /\ ~child.errored
    /\ Step(handleExit([World EXCEPT !.child.exited = TRUE, !.child.code = code,
                                     !.child.signal = signal], code, signal),
            "exit", NoId)

SpawnError == MkError("Error", "spawn", "", "", <<>>)

\* child "error" (once)
ChildError ==
    /\ Idle
    /\ ~child.errored
    /\ ~child.exited
    /\ Step(handleError([World EXCEPT !.child.errored = TRUE], SpawnError), "error", NoId)

\* child.stderr "data"
StderrData(chunk) ==
    /\ Idle
    /\ ~child.exited
    /\ client.stderrChunks = <<>>
    /\ Step([World EXCEPT !.client.stderrChunks = Append(@, chunk)], "stderr", NoId)

\* the caller aborts the signal of task t
Abort(t) ==
    /\ ~signals[t].aborted
    /\ ~Returned(t)
    /\ Step(abort(World, t), "abort", t)

InitializeInternal(t) ==
    /\ tasks[t].pc = "initInternal"
    /\ Settled(promises[tasks[t].p])
    /\ Step(initializeInternal(World, t), "initializeInternal", t)

InitializeOwner(t) ==
    /\ tasks[t].pc = "initOwner"
    /\ Step(initializeOwner(World, t), "initializeOwner", t)

\* initialize() after `await this.initializing` in a call that shares the attempt;
\* the reactions of a promise run in the order they were added: the owner's first
InitializeShared(t) ==
    /\ tasks[t].pc = "initSharedSettled"
    /\ \A u \in DOMAIN tasks : tasks[u].pc # "initOwner"
    /\ Step(SetTask(World, t, "initReturn", tasks[t].error), "initializeShared", t)

StartAfterInitialize(t) ==
    /\ tasks[t].op = "stream"
    /\ tasks[t].phase = "init"
    /\ tasks[t].pc = "initReturn"
    /\ Step(startAfterInitialize(World, t), "startAfterInitialize", t)

CallCodex(t) ==
    /\ tasks[t].op \in {"stream", "callCodex"}
    /\ tasks[t].phase = "call"
    /\ tasks[t].pc = "initReturn"
    /\ Step(callCodex(World, t), "callCodex", t)

CallCodexSettled(t) ==
    /\ tasks[t].pc = "callAwait"
    /\ Settled(promises[tasks[t].p])
    /\ Step(callCodexSettled(World, t), "callCodexSettled", t)

StartAfterCall(t) ==
    /\ tasks[t].op = "stream"
    /\ tasks[t].pc = "callReturn"
    /\ Step(startAfterCall(World, t), "startAfterCall", t)

-----------------------------------------------------------------------------
(* The generation stream: one client, one start() task, and the subprocess *)

CodexEvent(type, meta, msg) ==
    Line("json", JsonMessage(TRUE, FALSE, NumId(0), TRUE,
                             Notification(<<"codex", "event">>, meta,
                                          [msg EXCEPT !.type = TypeName(type)]),
                             FALSE, "", <<>>, FALSE, NullResult))

Response(id, result) ==
    Line("json", JsonMessage(TRUE, TRUE, id, FALSE, NoNotification, FALSE, "", <<>>,
                             TRUE, result))

ResponseNoResult(id) ==
    Line("json", JsonMessage(TRUE, TRUE, id, FALSE, NoNotification, FALSE, "", <<>>,
                             FALSE, NullResult))

ErrorResponse(id, message, data) ==
    Line("json", JsonMessage(TRUE, TRUE, id, FALSE, NoNotification, TRUE, message, data,
                             FALSE, NullResult))

GarbageLine == Line("garbage", NoMessage)
BlankLine == Line("blank", NoMessage)

\* { content: [{ type: "text", text }], isError }
TextResult(text, isError) ==
    Result("object", TRUE, TRUE, <<Block(TRUE, "text", Str(text))>>, FALSE, FALSE,
           NotString, isError, FALSE)

EmptyObject == Result("object", FALSE, FALSE, <<>>, FALSE, FALSE, NotString, FALSE, FALSE)

WithDelta(s) == [EmptyMsg EXCEPT !.delta = Str(s)]
WithMessage(s) == [EmptyMsg EXCEPT !.message = Str(s)]
WithText(s) == [EmptyMsg EXCEPT !.text = Str(s)]
WithChunk(s) == [EmptyMsg EXCEPT !.chunk = Str(s)]
WithLast(s) == [EmptyMsg EXCEPT !.last_agent_message = Str(s)]

\* "aGk=" is the base64 of "hi"
StreamLines ==
    { CodexEvent("agent_message_delta", NoMeta, WithDelta(<<97>>)),
      CodexEvent("agent_message", NoMeta, WithMessage(<<97, 98>>)),
      CodexEvent("agent_reasoning_delta", NoMeta, WithDelta(<<97>>)),
      CodexEvent("agent_reasoning_section_break", NoMeta, EmptyMsg),
      CodexEvent("exec_command_output_delta", NoMeta, WithChunk(<<97, 71, 107, 61>>)),
      CodexEvent("task_complete", NoMeta, EmptyMsg),
      CodexEvent("task_complete", NoMeta, WithLast(<<97>>)),
      CodexEvent("stream_error", NoMeta, WithMessage(<<97>>)),
      CodexEvent("error", NoMeta, EmptyMsg),
      Response(NumId(0), EmptyObject),
      ErrorResponse(NumId(0), "init failed", <<>>),
      Response(NumId(1), TextResult(<<97, 98>>, FALSE)),
      Response(NumId(1), TextResult(<<97>>, TRUE)),
      ResponseNoResult(NumId(1)),
      ErrorResponse(NumId(1), "call failed", <<>>),
      GarbageLine }

StreamOptions ==
    { ProviderOptions("true", "absent", "absent") }

Init == \E o \in StreamOptions : InitWith({StreamTask}, "stream", o)

Next ==
    \/ Start(StreamTask)
    \/ \E line \in StreamLines : InboundLine(line)
    \/ \E code \in {"null", "1"}, signal \in {"", "SIGKILL"} : ChildExit(code, signal)
    \/ ChildError
    \/ StderrData(<<101>>)
    \/ Abort(StreamTask)
    \/ InitializeInternal(StreamTask)
    \/ InitializeOwner(StreamTask)
    \/ StartAfterInitialize(StreamTask)
    \/ CallCodex(StreamTask)
    \/ CallCodexSettled(StreamTask)
    \/ StartAfterCall(StreamTask)

Spec == Init /\ [][Next]_vars

-----------------------------------------------------------------------------
(* A generation that is fed text events, and one that is fed reasoning events *)

\* the strings over the code units of `alphabet` of length at most n
RECURSIVE Strings(_, _)
Strings(alphabet, n) ==
    IF n = 0 THEN {<<>>}
    ELSE LET shorter == Strings(alphabet, n - 1)
         IN shorter \cup {Append(s, c) : s \in shorter, c \in alphabet}

\* "a" and "b"
Letters == {97, 98}

TextLines ==
    { CodexEvent("agent_message_delta", NoMeta, WithDelta(s)) :
          s \in Strings(Letters, 1) \cup {<<97, 98>>} }
    \cup { CodexEvent("agent_message", NoMeta, WithMessage(s)) :
               s \in Strings(Letters, 2) \cup {<<97, 97, 98>>, <<97, 98, 97>>, <<97, 98, 98>>} }

\* the handshake of the generation, and its tools/call being written
Handshake ==
    \/ InboundLine(Response(NumId(0), EmptyObject))
    \/ InitializeInternal(StreamTask)
    \/ InitializeOwner(StreamTask)
    \/ StartAfterInitialize(StreamTask)
    \/ CallCodex(StreamTask)

InitText == InitWith({StreamTask}, "stream", ProviderOptions("absent", "absent", "absent"))

NextText ==
    \/ Start(StreamTask)
    \/ Handshake
    \/ \E line \in TextLines : HeardLine(line)

SpecText == InitText /\ [][NextText]_vars

\* chunks with '*', spaces and line feeds around one or two letters
ReasoningChunks ==
    { <<97>>, <<98>>, <<STAR, 97>>, <<97, SPACE>>, <<SPACE>>, <<LF>>, <<97, SPACE, 98>> }

ReasoningLines ==
    { CodexEvent("agent_reasoning_delta", NoMeta, WithDelta(s)) : s \in ReasoningChunks }
    \cup { CodexEvent("agent_reasoning", NoMeta, WithText(s)) :
               s \in {<<>>, <<97>>, <<STAR, 97>>, <<97, 98>>, <<97, SPACE, 98>>,
                      <<97, LF, SPACE, 98>>} }
    \cup { CodexEvent("agent_reasoning_section_break", NoMeta, EmptyMsg) }

NextReasoning ==
    \/ Start(StreamTask)
    \/ Handshake
    \/ \E line \in ReasoningLines : HeardLine(line)

SpecReasoning == InitText /\ [][NextReasoning]_vars

-----------------------------------------------------------------------------
(* The client on its own: callers that use one session concurrently *)

MaxTasks == 3
MaxClientLines == 2
MaxAborts == 1

ClientTasks == 1..MaxTasks

\* callers are numbered in the order of their calls
NextCaller(t) == \A u \in ClientTasks : u < t => tasks[u].pc # "new"

\* a caller calls client.initialize()
BeginInitialize(t) ==
    /\ tasks[t].pc = "new"
    /\ tasks[t].op = "initialize"
    /\ NextCaller(t)
    /\ Step(initialize([World EXCEPT !.tasks[t].phase = "init"], t), "initialize", t)

\* a caller calls client.callCodex(args, { abortSignal, onNotification })
BeginCallCodex(t) ==
    /\ tasks[t].pc = "new"
    /\ tasks[t].op = "callCodex"
    /\ NextCaller(t)
    /\ Step(initialize([World EXCEPT !.tasks[t].phase = "call"], t), "callCodex", t)

\* the owner of the session calls client.close()
Close ==
    /\ ~client.closed
    /\ Step(close(World), "close", NoId)

ClientLine(line) ==
    /\ nLines < MaxClientLines
    /\ InboundLine(line)

\* the caller of callCodex aborts the signal it passed
AbortCall(t) ==
    /\ tasks[t].op = "callCodex"
    /\ Cardinality({u \in ClientTasks : signals[u].aborted}) < MaxAborts
    /\ Abort(t)

ClientLines ==
    { Response(NumId(i), EmptyObject) : i \in 0..MaxTasks }
    \cup { ErrorResponse(NumId(0), "init failed", <<>>), GarbageLine }

InitClient ==
    /\ InitWith(ClientTasks, "", ProviderOptions("absent", "absent", "absent"))
    /\ \E ops \in [ClientTasks -> {"initialize", "callCodex"}] :
           tasks = [t \in ClientTasks |-> NewTask(ops[t])]

NextClient ==
    \/ \E t \in ClientTasks : BeginInitialize(t)
    \/ \E t \in ClientTasks : BeginCallCodex(t)
    \/ \E line \in ClientLines : ClientLine(line)
    \/ \E exit \in {<<"1", "">>, <<"null", "SIGKILL">>} : ChildExit(exit[1], exit[2])
    \/ ChildError
    \/ StderrData(<<101>>)
    \/ Close
    \/ \E t \in ClientTasks : AbortCall(t)
    \/ \E t \in ClientTasks : InitializeInternal(t)
    \/ \E t \in ClientTasks : InitializeOwner(t)
    \/ \E t \in ClientTasks : InitializeShared(t)
    \/ \E t \in ClientTasks : CallCodex(t)
    \/ \E t \in ClientTasks : CallCodexSettled(t)

SpecClient == InitClient /\ [][NextClient]_vars

-----------------------------------------------------------------------------
(* The client fed responses: callers of callCodex and the lines that answer them *)

\* responses to the handshake (id 0) and to the calls, with a result, without
\* one, with an error object, with the id as a string ("1"), and for an id
\* that is never issued
ResponseLines ==
    { Response(NumId(0), EmptyObject),
      Response(NumId(1), TextResult(<<97>>, FALSE)),
      ResponseNoResult(NumId(1)),
      ErrorResponse(NumId(1), "call failed", <<100>>),
      Response(StrId(<<49>>), EmptyObject),
      Response(NumId(2), EmptyObject),
      Response(NumId(MaxTasks + 1), EmptyObject) }

InitResponses == InitWith(ClientTasks, "callCodex", ProviderOptions("absent", "absent", "absent"))

NextResponses ==
    \/ \E t \in ClientTasks : BeginCallCodex(t)
    \/ \E line \in ResponseLines : HeardLine(line)
    \/ ChildExit("1", "")
    \/ \E t \in ClientTasks : AbortCall(t)
    \/ \E t \in ClientTasks : InitializeInternal(t)
    \/ \E t \in ClientTasks : InitializeOwner(t)
    \/ \E t \in ClientTasks : InitializeShared(t)
    \/ \E t \in ClientTasks : CallCodex(t)
    \/ \E t \in ClientTasks : CallCodexSettled(t)

SpecResponses == InitResponses /\ [][NextResponses]_vars

-----------------------------------------------------------------------------
(* The generation and the listener calls made for each line *)

\* a notification of another method: the listeners are called, none acts on it
OtherNotification ==
    Line("json", JsonMessage(TRUE, FALSE, NumId(0), TRUE,
                             Notification(<<"other">>, NoMeta, EmptyMsg),
                             FALSE, "", <<>>, FALSE, NullResult))

FanoutLines ==
    { CodexEvent("agent_message_delta", NoMeta, WithDelta(<<97>>)),
      CodexEvent("task_complete", NoMeta, WithLast(<<97>>)),
      CodexEvent("error", NoMeta, EmptyMsg),
      OtherNotification,
      Response(NumId(1), TextResult(<<97>>, FALSE)),
      GarbageLine }

NextFanout ==
    \/ Start(StreamTask)
    \/ Handshake
    \/ \E line \in FanoutLines : HeardLine(line)
    \/ Abort(StreamTask)
    \/ CallCodexSettled(StreamTask)
    \/ StartAfterCall(StreamTask)

SpecFanout == InitText /\ [][NextFanout]_vars

-----------------------------------------------------------------------------
(* The generation and the results of its call *)

\* { isError: true } with no text
ErrorFlagOnly == [EmptyObject EXCEPT !.isError = TRUE, !.hasErrorKey = TRUE]

\* { toolResult: { text }, isError: true }
ToolResultError(text) ==
    [ErrorFlagOnly EXCEPT !.hasToolResult = TRUE, !.toolResultIsObject = TRUE,
                          !.toolResultText = Str(text)]

\* a JSON string as the result
StringResult == [NullResult EXCEPT !.kind = "string"]

Results ==
    { TextResult(<<97>>, TRUE), ToolResultError(<<98>>), ErrorFlagOnly, StringResult,
      NullResult, TextResult(<<97, 98>>, FALSE), EmptyObject }

ResultLines ==
    { Response(NumId(1), r) : r \in Results } \cup
    { ResponseNoResult(NumId(1)),
      CodexEvent("agent_message_delta", NoMeta, WithDelta(<<97>>)),
      CodexEvent("agent_reasoning_delta", NoMeta, WithDelta(<<97>>)),
      CodexEvent("stream_error", NoMeta, WithMessage(<<97>>)) }

NextResults ==
    \/ Start(StreamTask)
    \/ Handshake
    \/ \E line \in ResultLines : InboundLine(line)
    \/ Abort(StreamTask)
    \/ CallCodexSettled(StreamTask)
    \/ StartAfterCall(StreamTask)

SpecResults == InitText /\ [][NextResults]_vars

-----------------------------------------------------------------------------
(* The client closed: callers, lines and close() calls at any time *)

\* a call of close(), whatever the state of the session (a session is closed
\* once close() has been called)
CloseAnyTime ==
    /\ last.op = "close" => client.closed
    /\ Step(close(World), "close", NoId)

NextClosed ==
    \/ \E t \in ClientTasks : BeginInitialize(t)
    \/ \E t \in ClientTasks : BeginCallCodex(t)
    \/ \E line \in {Response(NumId(0), EmptyObject), GarbageLine} : ClientLine(line)
    \/ ChildExit("1", "")
    \/ ChildError
    \/ CloseAnyTime
    \/ \E t \in ClientTasks : AbortCall(t)
    \/ \E t \in ClientTasks : InitializeInternal(t)
    \/ \E t \in ClientTasks : InitializeOwner(t)
    \/ \E t \in ClientTasks : InitializeShared(t)
    \/ \E t \in ClientTasks : CallCodex(t)
    \/ \E t \in ClientTasks : CallCodexSettled(t)

SpecClosed == InitClient /\ [][NextClosed]_vars

-----------------------------------------------------------------------------
(* The generation fed notifications that carry a request id *)

\* _meta.requestId: absent, 1 (the id of the tools/call), 2, "1", "2", "a", null
Metas ==
    { NoMeta, MetaNumber(1), MetaNumber(2), MetaString(<<49>>), MetaString(<<50>>),
      MetaString(<<97>>), MetaOther }

MetaLines ==
    { CodexEvent("agent_message_delta", meta, WithDelta(<<97>>)) : meta \in Metas } \cup
    { CodexEvent("task_complete", meta, EmptyMsg) : meta \in Metas }

NextMeta ==
    \/ Start(StreamTask)
    \/ Handshake
    \/ \E line \in MetaLines : HeardLine(line)

SpecMeta == InitText /\ [][NextMeta]_vars

-----------------------------------------------------------------------------
(* The generation under fair scheduling of its continuations *)

\* the continuations of the async functions: each is a queued microtask once
\* the promise it awaits has settled, and the microtask queue is always drained
Continue(t) ==
    \/ InitializeInternal(t)
    \/ InitializeOwner(t)
    \/ StartAfterInitialize(t)
    \/ CallCodex(t)
    \/ CallCodexSettled(t)
    \/ StartAfterCall(t)

LiveLines ==
    { CodexEvent("agent_message_delta", NoMeta, WithDelta(<<97>>)),
      CodexEvent("task_complete", NoMeta, EmptyMsg),
      CodexEvent("error", NoMeta, EmptyMsg),
      Response(NumId(0), EmptyObject),
      ErrorResponse(NumId(0), "init failed", <<>>),
      Response(NumId(1), TextResult(<<97>>, FALSE)),
      ErrorResponse(NumId(1), "call failed", <<>>),
      GarbageLine }

NextLive ==
    \/ Start(StreamTask)
    \/ \E line \in LiveLines : InboundLine(line)
    \/ ChildExit("1", "")
    \/ ChildError
    \/ Abort(StreamTask)
    \/ InitializeInternal(StreamTask)
    \/ InitializeOwner(StreamTask)
    \/ StartAfterInitialize(StreamTask)
    \/ CallCodex(StreamTask)
    \/ CallCodexSettled(StreamTask)
    \/ StartAfterCall(StreamTask)

\* the stream is constructed (start() runs) and every continuation is taken;
\* nothing obliges the subprocess or the caller to produce an event
SpecLive ==
    /\ InitText
    /\ [][NextLive]_vars
    /\ WF_vars(Start(StreamTask))
    /\ WF_vars(Continue(StreamTask))

-----------------------------------------------------------------------------
(* The generation fed command output *)

\* msg.chunk values: "SGVsbG8=\n" (base64 of "Hello"), "aGk=" ("hi"), "YQ==" ("a"),
\* "hi", "abcd" and "AAAA" (base64 of bytes that are not printable text),
\* "a===", "====", " ", "", NUL, "a" NUL, U+FFFD, "aG k=" and "h\ti"
ExecChunks ==
    { <<83, 71, 86, 115, 98, 71, 56, 61, 10>>, <<97, 71, 107, 61>>, <<89, 81, 61, 61>>,
      <<104, 105>>, <<97, 98, 99, 100>>, <<65, 65, 65, 65>>,
      <<97, 61, 61, 61>>, <<61, 61, 61, 61>>, <<32>>, <<>>, <<0>>, <<97, 0>>,
      <<65533>>, <<97, 71, 32, 107, 61>>, <<104, 9, 105>> }

ExecLines ==
    { CodexEvent("exec_command_output_delta", NoMeta, WithChunk(c)) : c \in ExecChunks } \cup
    { CodexEvent("exec_command_output_delta", NoMeta, EmptyMsg),
      CodexEvent("agent_message_delta", NoMeta, WithDelta(<<97>>)),
      CodexEvent("task_complete", NoMeta, EmptyMsg) }

NextExec ==
    \/ Start(StreamTask)
    \/ Handshake
    \/ \E line \in ExecLines : HeardLine(line)

\* streamCommandOutput: true
InitExec == InitWith({StreamTask}, "stream", ProviderOptions("true", "absent", "absent"))

SpecExec == InitExec /\ [][NextExec]_vars

\* streamCommandOutput absent or false
InitExecOff ==
    \E o \in {"absent", "false"} :
        InitWith({StreamTask}, "stream", ProviderOptions(o, "absent", "absent"))

SpecExecOff == InitExecOff /\ [][NextExec]_vars

-----------------------------------------------------------------------------
(* monkeyPatch: values, errors and the factory modules *)

\* The monkey patch is modelled from the revision that accepts an injected
\* Provider module and keeps its own provider state with a TTL cache. The other
\* revision of monkeyPatch.ts throws "Dependency injection not supported" for
\* any argument and reads Provider.state(); its lookups, its factory
\* extraction and its order of cache check, validation and delegation are the
\* same.

\* JavaScript values, by type
Undefined == [t |-> "undefined"]
Null == [t |-> "null"]
Number == [t |-> "number"]
Fn(name) == [t |-> "function", name |-> name]
Object(props) == [t |-> "object", props |-> props]

\* the properties every plain object inherits from Object.prototype
ObjectPrototype == {"constructor"}

\* object[key] on a plain object: an own property, else an inherited one
Lookup(object, key) ==
    IF key \in DOMAIN object THEN [found |-> "own", value |-> object[key]]
    ELSE IF key \in ObjectPrototype THEN [found |-> "inherited", value |-> Fn("Object")]
    ELSE [found |-> "none", value |-> Undefined]

\* value.key
Get(value, key) ==
    IF value.t = "object" /\ key \in DOMAIN value.props THEN value.props[key] ELSE Undefined

\* Object.keys(moduleObject)
Keys(value) ==
    IF value.t = "object"
    THEN SelectSeq(<<"createCodexProvider", "default", "version">>,
                   LAMBDA k : k \in DOMAIN value.props)
    ELSE <<>>

\* join(", ") of a sequence of strings, as the parts of the result
RECURSIVE Join(_)
Join(parts) ==
    IF Len(parts) = 0 THEN <<>>
    ELSE IF Len(parts) = 1 THEN parts
    ELSE <<Head(parts), ", ">> \o Join(Tail(parts))

\* an Error: its name, the parts of its message, and its cause
NoCause == [name |-> "", message |-> <<>>]
Error(message) == [name |-> "Error", message |-> message, cause |-> NoCause]
Cause(error) == [name |-> error.name, message |-> error.message]

FACTORY_NOT_FOUND == "Custom provider factory did not expose createCodexProvider"
PROVIDER_IMPORT_FAILED == "Failed to import Provider module"

CustomModelNotFoundError(providerID, modelID) ==
    [name |-> "ProviderModelNotFoundError",
     message |-> <<"Model ", modelID, " not found for provider ", providerID>>,
     cause |-> NoCause]

CustomInitError(providerID, cause) ==
    [name |-> "ProviderInitError",
     message |-> <<"Init error for provider ", providerID, ": ">> \o cause.message,
     cause |-> Cause(cause)]

\* reading a property of undefined
TypeError == [name |-> "TypeError", message |-> <<"undefined is not an object">>, cause |-> NoCause]

Ok(value) == [ok |-> TRUE, value |-> value, error |-> Error(<<>>)]
Throw(error) == [ok |-> FALSE, value |-> Undefined, error |-> error]

\* the first strategy whose extracted value is a function decides
extractFactory_DefaultFirst(moduleObject, modulePath) ==
    IF moduleObject.t \in {"null", "undefined"}
    THEN Throw(Error(<<FACTORY_NOT_FOUND, " in ", modulePath, ". Module is ",
                        moduleObject.t, ".">>))
    ELSE IF Get(moduleObject, "default").t = "function"
    THEN Ok(Get(moduleObject, "default"))
    ELSE IF Get(moduleObject, "createCodexProvider").t = "function"
    THEN Ok(Get(moduleObject, "createCodexProvider"))
    ELSE IF Get(Get(moduleObject, "default"), "createCodexProvider").t = "function"
    THEN Ok(Get(Get(moduleObject, "default"), "createCodexProvider"))
    ELSE Throw(Error(<<FACTORY_NOT_FOUND, " in ", modulePath>>
                      \o (IF Keys(moduleObject) # <<>>
                          THEN <<". Available exports: ">> \o Join(Keys(moduleObject))
                          ELSE <<>>)))

extractFactory(moduleObject, modulePath) ==
    IF moduleObject.t \in {"null", "undefined"}
    THEN Throw(Error(<<FACTORY_NOT_FOUND, " in ", modulePath, ". Module is ",
                        moduleObject.t, ".">>))
    ELSE IF Get(moduleObject, "createCodexProvider").t = "function"
    THEN Ok(Get(moduleObject, "createCodexProvider"))
    ELSE IF Get(moduleObject, "default").t = "function"
    THEN Ok(Get(moduleObject, "default"))
    ELSE IF Get(Get(moduleObject, "default"), "createCodexProvider").t = "function"
    THEN Ok(Get(Get(moduleObject, "default"), "createCodexProvider"))
    ELSE Throw(Error(<<FACTORY_NOT_FOUND, " in ", modulePath>>
                      \o (IF Keys(moduleObject) # <<>>
                          THEN <<". Available exports: ">> \o Join(Keys(moduleObject))
                          ELSE <<>>)))

\* the extraction error is thrown as it is
extractFactoryWithErrorHandling_Unwrapped(moduleObject, context) ==
    extractFactory(moduleObject, context.factoryModule)

extractFactoryWithErrorHandling(moduleObject, context) ==
    LET extracted == extractFactory(moduleObject, context.factoryModule)
    IN  IF extracted.ok THEN extracted
        ELSE Throw(CustomInitError(context.providerID, extracted.error))

\* what import(path) yields for the paths a providerFactory option may name;
\* a path outside the domain cannot be resolved
FactoryModules ==
    [path \in {"opencode-codex-provider/provider", "./default-factory", "./nested-factory",
               "./invalid-factory", "./throwing-factory"} |->
        CASE path = "opencode-codex-provider/provider" ->
                 Object([createCodexProvider |-> Fn("createCodexProvider"), version |-> Number])
          [] path = "./default-factory" -> Object([default |-> Fn("default")])
          [] path = "./nested-factory" ->
                 Object([default |-> Object([createCodexProvider |-> Fn("nested")])])
          [] path = "./invalid-factory" ->
                 Object([createCodexProvider |-> Number, version |-> Number])
          [] OTHER -> Object([createCodexProvider |-> Fn("throws")])]

String(s) == [t |-> "string", s |-> s]

ModelInfo(modelID) == [t |-> "object", id |-> modelID]

ProviderInfo(npm, modelIDs, providerFactory) ==
    [info |-> [npm |-> npm, models |-> [m \in modelIDs |-> ModelInfo(m)]],
     options |-> [providerFactory |-> providerFactory]]

createDefaultPatchState ==
    [models |-> <<>>,
     providers |-> [p \in {"codex"} |->
                       ProviderInfo("opencode-codex-provider", {"gpt-5-codex"},
                                    String("opencode-codex-provider/provider"))]]

-----------------------------------------------------------------------------
(* monkeyPatch: the models cache *)

\* the clock counts ticks; CACHE_CONFIG.TTL_MS and CACHE_CONFIG.MAX_SIZE are
\* scaled to it and to the number of requests
MaxTime == 2
TTL_MS == 2
MAX_SIZE == 1

generateCacheKey(providerID, modelID) == providerID \o "/" \o modelID

isCacheEntryValid(entry) == now - entry.timestamp < TTL_MS

Position(cache, key) ==
    IF \E i \in DOMAIN cache : cache[i].key = key
    THEN CHOOSE i \in DOMAIN cache : cache[i].key = key
    ELSE 0

Without(cache, i) == SubSeq(cache, 1, i - 1) \o SubSeq(cache, i + 1, Len(cache))

\* the oldest entry: the first of those with the least timestamp (the sort is stable)
Oldest(cache) ==
    CHOOSE i \in DOMAIN cache :
        \A j \in DOMAIN cache :
            \/ cache[i].timestamp < cache[j].timestamp
            \/ cache[i].timestamp = cache[j].timestamp /\ i <= j

RECURSIVE manageCacheSize(_)
manageCacheSize(cache) ==
    IF Len(cache) <= MAX_SIZE THEN cache
    ELSE manageCacheSize(Without(cache, Oldest(cache)))

\* [value, cache]: the lookup deletes an expired entry
getCachedValue(cache, key) ==
    LET i == Position(cache, key)
    IN  IF i = 0 THEN [value |-> Undefined, cache |-> cache]
        ELSE IF ~isCacheEntryValid(cache[i])
        THEN [value |-> Undefined, cache |-> Without(cache, i)]
        ELSE [value |-> cache[i].value, cache |-> cache]

\* Map.set keeps the position of a key the Map already has
setCachedValue(cache, key, value) ==
    LET i == Position(cache, key)
        entry == [key |-> key, value |-> value, timestamp |-> now]
    IN  manageCacheSize(IF i = 0 THEN Append(cache, entry) ELSE [cache EXCEPT ![i] = entry])

-----------------------------------------------------------------------------
(* monkeyPatch: the patched getModel *)

MaxRequests == 3

\* the result object of a getModel call; ref is the identity of the object
ModelResult(ref, modelID, providerID, info, language, npm) ==
    [t |-> "object", ref |-> ref, modelID |-> modelID, providerID |-> providerID,
     info |-> info, language |-> language, npm |-> npm]

\* no model of the modelled providers names an npm package of its own
buildModelResult(ref, modelID, providerID, modelInfo, languageModel, providerConfig) ==
    ModelResult(ref, modelID, providerID, modelInfo, languageModel, providerConfig.info.npm)

\* the lookups are property reads on plain objects
validateProviderAndModel(providerState, providerID, modelID) ==
    LET provider == Lookup(providerState.providers, providerID)
    IN  IF provider.found = "none"
        THEN Throw(CustomModelNotFoundError(providerID, modelID))
        ELSE IF provider.found = "inherited"
        THEN Throw(TypeError)
        ELSE LET model == Lookup(provider.value.info.models, modelID)
             IN  IF model.found = "none"
                 THEN Throw(CustomModelNotFoundError(providerID, modelID))
                 ELSE Ok([providerConfig |-> provider.value, modelInfo |-> model.value])

\* any providerFactory option counts, whatever its type
getFactoryInfo_AnyType(providerConfig) ==
    LET customFactoryModule == providerConfig.options.providerFactory
    IN  [hasCustomFactory |-> customFactoryModule.t # "undefined",
         factoryModule |-> IF customFactoryModule.t = "string"
                           THEN customFactoryModule.s ELSE ""]

getFactoryInfo(providerConfig) ==
    LET customFactoryModule == providerConfig.options.providerFactory
    IN  [hasCustomFactory |-> customFactoryModule.t = "string",
         factoryModule |-> IF customFactoryModule.t = "string"
                           THEN customFactoryModule.s ELSE ""]

\* a getModel call: where it is, how it settled, and what it did on the way
NewRequest(providerID, modelID) ==
    [providerID |-> providerID, modelID |-> modelID, pc |-> "import",
     factoryModule |-> "", outcome |-> Ok(Undefined), fromCache |-> FALSE,
     imported |-> FALSE, factoryCalls |-> 0, originalCalls |-> <<>>, wrote |-> FALSE,
     at |-> 0]

Settle(request, outcome) == [request EXCEPT !.pc = "done", !.outcome = outcome, !.at = now]

\* what the original getModel of the module does with its arguments
OriginalOutcomes(ref, providerID, modelID) ==
    {Ok(ModelResult(ref, modelID, providerID, ModelInfo(modelID), "sdk", "")),
     Throw(Error(<<"sdk failure">>))}

\* up to the first await: [request, models]
handleModelRequest(providerState, providerID, modelID, original) ==
    LET cacheKey == generateCacheKey(providerID, modelID)
        cached == getCachedValue(providerState.models, cacheKey)
        validated == validateProviderAndModel(providerState, providerID, modelID)
        factory == getFactoryInfo(validated.value.providerConfig)
        request == NewRequest(providerID, modelID)
    IN  IF cached.value.t # "undefined"
        THEN [request |-> [Settle(request, Ok(cached.value)) EXCEPT !.fromCache = TRUE],
              models |-> cached.cache]
        ELSE IF ~validated.ok
        THEN [request |-> Settle(request, validated), models |-> cached.cache]
        ELSE IF factory.hasCustomFactory
        THEN [request |-> [request EXCEPT !.factoryModule = factory.factoryModule],
              models |-> cached.cache]
        ELSE [request |-> [Settle(request, original) EXCEPT
                               !.originalCalls = <<<<providerID, modelID>>>>],
              models |-> cached.cache]

\* [outcome, factoryCalls] once the import of the factory module has settled
loadCustomFactory(factoryModule, modelID, context, ref) ==
    IF factoryModule \notin DOMAIN FactoryModules
    THEN [outcome |-> Throw(CustomInitError(context.providerID,
                                            Error(<<"Cannot find module ", factoryModule>>))),
          factoryCalls |-> 0]
    ELSE LET factoryFunction ==
                 extractFactoryWithErrorHandling(FactoryModules[factoryModule], context)
         IN  IF ~factoryFunction.ok
             THEN [outcome |-> factoryFunction, factoryCalls |-> 0]
             ELSE IF factoryFunction.value.name = "throws"
             THEN [outcome |-> Throw(CustomInitError(context.providerID,
                                                     Error(<<"factory failed">>))),
                   factoryCalls |-> 1]
             ELSE [outcome |-> Ok([factory |-> factoryFunction.value.name,
                                   modelID |-> modelID, ref |-> ref]),
                   factoryCalls |-> 1]

\* after the await: [request, models]; modelInfo and providerConfig are the
\* ones validated when the call was made
handleCustomFactoryRequest(providerState, request, ref) ==
    LET context == [providerID |-> request.providerID, modelID |-> request.modelID,
                    factoryModule |-> request.factoryModule]
        loaded == loadCustomFactory(request.factoryModule, request.modelID, context, ref)
        configured == validateProviderAndModel(providerState, request.providerID,
                                               request.modelID).value
        modelResult == buildModelResult(ref, request.modelID, request.providerID,
                                        configured.modelInfo, loaded.outcome.value,
                                        configured.providerConfig)
        resumed == [request EXCEPT !.imported = TRUE, !.factoryCalls = loaded.factoryCalls]
    IN  IF ~loaded.outcome.ok
        THEN [request |-> Settle(resumed, loaded.outcome), models |-> providerState.models]
        ELSE [request |-> [Settle(resumed, Ok(modelResult)) EXCEPT !.wrote = TRUE],
              models |-> setCachedValue(providerState.models,
                                        generateCacheKey(request.providerID, request.modelID),
                                        modelResult)]

-----------------------------------------------------------------------------
(* monkeyPatch: applying the patch *)

MaxCalls == 3

\* what a caller may pass: nothing, a module with Provider.getModel, a module
\* whose Provider has no getModel, or null
ModuleArgs == {"undefined", "mock", "bare", "null"}

ProviderModule(getModel) == [getModel |-> getModel, replaced |-> 0]

\* "opencode" is the module the import strategies resolve to; getModel is
\* "absent" when no strategy yields a module with Provider.getModel
ProviderModules(imported) ==
    [m \in {"opencode", "mock", "bare"} |->
        CASE m = "opencode" -> ProviderModule(imported)
          [] m = "mock" -> ProviderModule("original")
          [] OTHER -> ProviderModule("absent")]

isValidProviderModule(moduleObject) ==
    /\ moduleObject \in DOMAIN Provider
    /\ Provider[moduleObject].getModel # "absent"

Attempt(injected, stage, error) ==
    [module |-> injected, stage |-> stage, failed |-> error # NoCause, error |-> error]

\* the assignments that follow the choice of ProviderModule
Patch(moduleObject) ==
    /\ Provider' = [Provider EXCEPT ![moduleObject] =
                        [getModel |-> "patched", replaced |-> @.replaced + 1]]
    /\ patchState' = createDefaultPatchState
    /\ patchApplied' = TRUE

\* up to the first await, or to the end when there is none
applyProviderFactoryPatchInternal(injectedProviderModule) ==
    IF patchApplied
    THEN /\ attempts' = Append(attempts, Attempt(injectedProviderModule, "settled", NoCause))
         /\ UNCHANGED <<Provider, patchState, patchApplied>>
    ELSE IF injectedProviderModule = "undefined"
    THEN /\ attempts' = Append(attempts, Attempt(injectedProviderModule, "import", NoCause))
         /\ UNCHANGED <<Provider, patchState, patchApplied>>
    ELSE IF ~isValidProviderModule(injectedProviderModule)
    THEN /\ attempts' = Append(attempts,
                 Attempt(injectedProviderModule, "settled",
                         Cause(Error(<<"Injected module structure invalid (missing Provider.getModel)">>))))
         /\ UNCHANGED <<Provider, patchState, patchApplied>>
    ELSE /\ attempts' = Append(attempts, Attempt(injectedProviderModule, "settled", NoCause))
         /\ Patch(injectedProviderModule)

\* every call starts an attempt of its own
applyProviderFactoryPatch_Unshared(injectedProviderModule) ==
    /\ Len(calls) < MaxCalls
    /\ applyProviderFactoryPatchInternal(injectedProviderModule)
    /\ patchPromise' = Len(attempts) + 1
    /\ calls' = Append(calls, [module |-> injectedProviderModule,
                               promise |-> Len(attempts) + 1])
    /\ UNCHANGED <<requests, now, clientVars, extraction>>

applyProviderFactoryPatch(injectedProviderModule) ==
    /\ Len(calls) < MaxCalls
    /\ IF patchPromise # 0
       THEN /\ calls' = Append(calls, [module |-> injectedProviderModule,
                                       promise |-> patchPromise])
            /\ UNCHANGED <<patchApplied, patchPromise, attempts, Provider, patchState>>
       ELSE /\ applyProviderFactoryPatchInternal(injectedProviderModule)
            /\ patchPromise' = Len(attempts) + 1
            /\ calls' = Append(calls, [module |-> injectedProviderModule,
                                       promise |-> Len(attempts) + 1])
    /\ UNCHANGED <<requests, now, clientVars, extraction>>

\* importProviderModule settles and applyProviderFactoryPatchInternal resumes
importProviderModule(a) ==
    /\ attempts[a].stage = "import"
    /\ IF isValidProviderModule("opencode")
       THEN /\ attempts' = [attempts EXCEPT ![a].stage = "settled"]
            /\ Patch("opencode")
       ELSE /\ attempts' = [attempts EXCEPT ![a] =
                     Attempt(@.module, "settled",
                             Cause(Error(<<PROVIDER_IMPORT_FAILED, ". Tried strategies:">>)))]
            /\ UNCHANGED <<Provider, patchState, patchApplied>>
    /\ UNCHANGED <<patchPromise, calls, requests, now, clientVars, extraction>>

\* the rejection is passed on but patchPromise is kept
PatchCatch_Keep(a) ==
    /\ attempts[a].stage = "settled"
    /\ attempts' = [attempts EXCEPT ![a].stage = "caught"]
    /\ UNCHANGED <<patchPromise, patchApplied, calls, Provider, patchState, requests, now,
                   clientVars, extraction>>

\* the .catch() handler of the attempt, or its pass-through
PatchCatch(a) ==
    /\ attempts[a].stage = "settled"
    /\ attempts' = [attempts EXCEPT ![a].stage = "caught"]
    /\ patchPromise' = IF attempts[a].failed THEN 0 ELSE patchPromise
    /\ UNCHANGED <<patchApplied, calls, Provider, patchState, requests, now, clientVars, extraction>>

\* the .then() handler of the attempt, or its pass-through: the promise the
\* callers hold settles
PatchThen(a) ==
    /\ attempts[a].stage = "caught"
    /\ attempts' = [attempts EXCEPT ![a].stage = "done"]
    /\ patchPromise' = IF attempts[a].failed THEN patchPromise ELSE 0
    /\ UNCHANGED <<patchApplied, calls, Provider, patchState, requests, now, clientVars, extraction>>

isPatchApplied == patchApplied

-----------------------------------------------------------------------------
(* monkeyPatch: requests *)

ProviderIDs == {"codex", "openai", "constructor"}
ModelIDs == {"gpt-5-codex", "gpt-4o", "constructor"}

\* the providerFactory options a provider is configured with
FactoryOptions ==
    {String(path) : path \in {"opencode-codex-provider/provider", "./default-factory",
                              "./nested-factory", "./invalid-factory", "./throwing-factory",
                              "non-existent-factory-module", ""}}
    \cup {Undefined, Number}

\* codex with some providerFactory option, with or without a second provider
\* that has none
ProviderTables ==
    {[p \in {"codex"} |-> ProviderInfo("opencode-codex-provider", {"gpt-5-codex", "gpt-4o"}, f)]
        : f \in FactoryOptions}
    \cup {[p \in {"codex", "openai"} |->
              IF p = "codex"
              THEN ProviderInfo("opencode-codex-provider", {"gpt-5-codex", "gpt-4o"}, f)
              ELSE ProviderInfo("@ai-sdk/openai", {"gpt-4o"}, Undefined)]
        : f \in {String("opencode-codex-provider/provider"), String("./invalid-factory")}}

\* the caller fills (await Provider.state()).providers before the first request
Configure(providers) ==
    /\ patchApplied
    /\ requests = <<>>
    /\ patchState.providers = createDefaultPatchState.providers
    /\ providers # createDefaultPatchState.providers
    /\ patchState' = [patchState EXCEPT !.providers = providers]
    /\ UNCHANGED <<patchApplied, patchPromise, attempts, calls, Provider, requests, now,
                   clientVars, extraction>>

\* Provider.getModel(providerID, modelID) of the patched module, up to its first await
patchedGetModel(providerID, modelID) ==
    /\ patchApplied
    /\ Len(requests) < MaxRequests
    /\ \E original \in OriginalOutcomes(Len(requests) + 1, providerID, modelID) :
          LET handled == handleModelRequest(patchState, providerID, modelID, original)
          IN  /\ requests' = Append(requests, handled.request)
              /\ patchState' = [patchState EXCEPT !.models = handled.models]
    /\ UNCHANGED <<patchApplied, patchPromise, attempts, calls, Provider, now, clientVars, extraction>>

\* the import of the factory module settles and the call runs to its end
FactoryImported(r) ==
    /\ requests[r].pc = "import"
    /\ LET handled == handleCustomFactoryRequest(patchState, requests[r], r)
       IN  /\ requests' = [requests EXCEPT ![r] = handled.request]
           /\ patchState' = [patchState EXCEPT !.models = handled.models]
    /\ UNCHANGED <<patchApplied, patchPromise, attempts, calls, Provider, now, clientVars, extraction>>

\* time passes
Tick ==
    /\ now < MaxTime
    /\ now' = now + 1
    /\ UNCHANGED <<patchApplied, patchPromise, attempts, calls, Provider, patchState,
                   requests, clientVars, extraction>>

InitPatch ==
    /\ Constructed({StreamTask}, "stream", ProviderOptions("absent", "absent", "absent"))
    /\ \E imported \in {"original", "absent"} : Provider = ProviderModules(imported)
    /\ extraction = <<>>

NextPatch ==
    \/ \E m \in ModuleArgs : applyProviderFactoryPatch(m)
    \/ \E a \in DOMAIN attempts : importProviderModule(a)
    \/ \E a \in DOMAIN attempts : PatchCatch(a)
    \/ \E a \in DOMAIN attempts : PatchThen(a)
    \/ \E p \in {"codex"}, m \in {"gpt-5-codex", "gpt-4o"} :
           Len(requests) < 1 /\ patchedGetModel(p, m)
    \/ \E r \in DOMAIN requests : FactoryImported(r)

SpecPatch == InitPatch /\ [][NextPatch]_vars

\* requests to a module patched by one call
InitModels ==
    /\ Constructed({StreamTask}, "stream", ProviderOptions("absent", "absent", "absent"))
    /\ Provider = ProviderModules("original")
    /\ extraction = <<>>

ApplyOnce == calls = <<>> /\ applyProviderFactoryPatch("mock")

NextModels ==
    \/ ApplyOnce
    \/ \E a \in DOMAIN attempts : PatchCatch(a)
    \/ \E a \in DOMAIN attempts : PatchThen(a)
    \/ \E providers \in ProviderTables : Configure(providers)
    \/ \E p \in ProviderIDs, m \in ModelIDs : patchedGetModel(p, m)
    \/ \E r \in DOMAIN requests : FactoryImported(r)
    \/ Tick

SpecModels == InitModels /\ [][NextModels]_vars

-----------------------------------------------------------------------------
(* monkeyPatch: extractFactory on its own *)

\* what a createCodexProvider export may be
NamedExports == {Fn("createCodexProvider"), Number, Null}

\* what a default export may be
DefaultExports ==
    {Fn("default"), Number, Null,
     Object([createCodexProvider |-> Fn("nested")]),
     Object([createCodexProvider |-> Number]),
     Object([version |-> Number])}

\* a module with any subset of the exports createCodexProvider, default and version
Exports(keys) ==
    {Object(props) : props \in [keys -> NamedExports \cup DefaultExports]}

ModuleShapes ==
    {Null, Undefined, Number}
    \cup UNION {{module \in Exports(keys) :
                    /\ "createCodexProvider" \in keys =>
                           module.props["createCodexProvider"] \in NamedExports
                    /\ "default" \in keys => module.props["default"] \in DefaultExports
                    /\ "version" \in keys => module.props["version"] = Number}
                : keys \in SUBSET {"createCodexProvider", "default", "version"}}

ModulePaths == {"opencode-codex-provider/provider", "./factory.js"}

\* a caller holds a module and its path
InitExtract ==
    /\ Constructed({StreamTask}, "stream", ProviderOptions("absent", "absent", "absent"))
    /\ Provider = <<>>
    /\ \E moduleObject \in ModuleShapes, modulePath \in ModulePaths :
           extraction = <<[moduleObject |-> moduleObject, modulePath |-> modulePath,
                           called |-> FALSE, result |-> Ok(Undefined)]>>

\* the caller hands them to extractFactory
Extract(i) ==
    /\ ~extraction[i].called
    /\ extraction' = [extraction EXCEPT
                          ![i].called = TRUE,
                          ![i].result = extractFactory(extraction[i].moduleObject,
                                                       extraction[i].modulePath)]
    /\ UNCHANGED <<clientVars, patchVars>>

NextExtract == \E i \in DOMAIN extraction : Extract(i)

SpecExtract == InitExtract /\ [][NextExtract]_vars

-----------------------------------------------------------------------------
(* The generation with no provider options set *)

DefaultLines ==
    { CodexEvent("agent_message_delta", NoMeta, WithDelta(<<97>>)),
      CodexEvent("agent_reasoning_delta", NoMeta, WithDelta(<<98>>)),
      CodexEvent("exec_command_output_delta", NoMeta, WithChunk(<<104, 105>>)),
      CodexEvent("exec_command_output_delta", NoMeta,
                 WithChunk(<<83, 71, 86, 115, 98, 71, 56, 61, 10>>)),
      CodexEvent("task_complete", NoMeta, EmptyMsg) }

NextDefaults ==
    \/ Start(StreamTask)
    \/ Handshake
    \/ \E line \in DefaultLines : HeardLine(line)

SpecDefaults == InitText /\ [][NextDefaults]_vars

-----------------------------------------------------------------------------
(* A generation that is fed reasoning section breaks; the deltas name their source *)

BreakLines ==
    { CodexEvent("agent_reasoning_delta", NoMeta, WithDelta(s)) : s \in {<<97>>, <<LF>>, <<SPACE>>} }
    \cup { CodexEvent("agent_reasoning", NoMeta, WithText(s)) : s \in {<<97>>, <<97, LF>>} }
    \cup { CodexEvent("agent_reasoning_section_break", NoMeta, EmptyMsg) }

InitBreaks ==
    \E streamReasoning \in {"absent", "false"} :
        InitWith({StreamTask}, "stream", ProviderOptions("absent", streamReasoning, "true"))

NextBreaks ==
    \/ Start(StreamTask)
    \/ Handshake
    \/ \E line \in BreakLines : HeardLine(line)

SpecBreaks == InitBreaks /\ [][NextBreaks]_vars

-----------------------------------------------------------------------------
(* The client fed requests of the server: lines with an id and a method *)

\* { jsonrpc: "2.0", id, method: "ping" }
ServerRequest(id) ==
    Line("json", JsonMessage(TRUE, TRUE, id, TRUE, Notification(<<"ping">>, NoMeta, EmptyMsg),
                             FALSE, "", <<>>, FALSE, NullResult))

ServerLines ==
    { ServerRequest(NumId(i)) : i \in {0, 1, MaxTasks + 1} }
    \cup { Response(NumId(0), EmptyObject), Response(NumId(1), TextResult(<<97>>, FALSE)) }

NextServer ==
    \/ \E t \in ClientTasks : BeginCallCodex(t)
    \/ \E line \in ServerLines : HeardLine(line)
    \/ \E t \in ClientTasks : InitializeInternal(t)
    \/ \E t \in ClientTasks : InitializeOwner(t)
    \/ \E t \in ClientTasks : InitializeShared(t)
    \/ \E t \in ClientTasks : CallCodex(t)
    \/ \E t \in ClientTasks : CallCodexSettled(t)

SpecServer == InitResponses /\ [][NextServer]_vars

-----------------------------------------------------------------------------
(* doGenerate: the stream of doStream read to its end *)

\* the loop over reader.read(): text-delta parts are appended whatever their id,
\* the finish part sets the finish reason, an error part is thrown; the
\* `[source] ` prefix of a delta is the part's source field and is left out here
RECURSIVE readParts(_, _)
readParts(parts, acc) ==
    IF parts = <<>> THEN acc
    ELSE LET value == Head(parts) IN
         IF value.type = "text-delta"
         THEN readParts(Tail(parts), [acc EXCEPT !.text = @ \o value.delta])
         ELSE IF value.type = "finish"
         THEN readParts(Tail(parts), [acc EXCEPT !.finishReason = value.finishReason])
         ELSE IF value.type = "error"
         THEN [acc EXCEPT !.thrown = TRUE, !.error = value.error]
         ELSE readParts(Tail(parts), acc)

\* doGenerate on a stream whose parts, up to its close, are `parts`
doGenerate(parts) ==
    readParts(parts, [text |-> <<>>, finishReason |-> "stop", thrown |-> FALSE,
                      error |-> NoError])

-----------------------------------------------------------------------------
(* Frame sequences *)

FramesOf(type, id) == {i \in 1..Len(frames) : frames[i].type = type /\ frames[i].id = id}

FinishFrames == FramesOf("finish", "")
ErrorFrames == FramesOf("error", "")

Channels == {"codex-text", "codex-reasoning", "codex-exec"}

\* start() has run and the generation has not been finalized
Running == tasks[StreamTask].pc # "new" /\ ~stream.finished

RequestsWritten(method) ==
    {i \in 1..Len(wire) : wire[i].kind = "request" /\ wire[i].method = method}

\* a terminating event has been handled: a terminal notification, the end of
\* start() (the RPC result or rejection), a transport error, the process exit,
\* or an abort of a started stream
Terminated ==
    \/ stream.finishedViaNotification
    \/ tasks[StreamTask].pc = "done"
    \/ child.exited
    \/ child.errored
    \/ client.closed
    \/ (signals[StreamTask].aborted /\ tasks[StreamTask].pc # "new")

\* C1: at most one finish frame is ever enqueued; once a terminating event has
\* been handled exactly one finish frame has been enqueued and the stream is
\* closed; no request is written a second time.
C1_SingleFinish ==
    /\ Cardinality(FinishFrames) <= 1
    /\ (Terminated \/ stream.finished) =>
           (Cardinality(FinishFrames) = 1 /\ controller.closed /\ stream.finished)
    /\ Cardinality(RequestsWritten("initialize")) <= 1
    /\ Cardinality(RequestsWritten("tools/call")) <= 1
    /\ client.requestCounter <= 2

\* a generation finalized by an error event after deltas, with a call written
C1_Witness ==
    /\ Cardinality(FinishFrames) = 1
    /\ child.exited
    /\ stream.textStarted
    /\ Cardinality(RequestsWritten("tools/call")) = 1
    /\ tasks[StreamTask].pc = "done"


FinishReasons == {frames[i].finishReason : i \in FinishFrames}
Errors == {frames[i].error : i \in ErrorFrames}

\* the finish and error frames, in order
Outcome == SelectSeq(frames, LAMBDA f : f.type \in {"finish", "error"})

\* C2: when an abort and a task_complete are both delivered to a running
\* generation, the one handled first decides the single finish frame: 'stop' for
\* task_complete, 'error' with an AbortError for the abort; the later one adds
\* no finish or error frame.
C2_AbortRace ==
    [][ /\ (Running /\ last'.op = "line" /\ last'.what = "task_complete") =>
               (Cardinality(FinishFrames') = 1 /\ FinishReasons' = {"stop"} /\ Errors' = {})
        /\ (Running /\ last'.op = "abort") =>
               (Cardinality(FinishFrames') = 1 /\ FinishReasons' = {"error"}
                /\ Errors' = {AbortError})
        /\ stream.finished => Outcome' = Outcome ]_vars

\* task_complete finished the generation with 'stop' and the abort came afterwards
C2_WitnessStopFirst ==
    /\ last.op = "abort"
    /\ stream.finishedViaNotification
    /\ FinishReasons = {"stop"}
    /\ Cardinality(FinishFrames) = 1

\* the abort finished the generation and a task_complete came afterwards
C2_Witness ==
    /\ last.op = "line" /\ last.what = "task_complete"
    /\ signals[StreamTask].aborted
    /\ Errors = {AbortError}
    /\ FinishReasons = {"error"}

ChannelFramed(ch) ==
    LET starts == FramesOf("text-start", ch)
        ends == FramesOf("text-end", ch)
        deltas == FramesOf("text-delta", ch)
    IN /\ Cardinality(starts) <= 1
       /\ Cardinality(ends) <= 1
       /\ ends # {} => starts # {}
       /\ FinishFrames # {} => (ends # {} <=> starts # {})
       /\ \A d \in deltas : (\E b \in starts : b < d) /\ (\A e \in ends : d < e)
       /\ \A e \in ends : \A b \in starts : b < e
       /\ \A e \in ends : \E f \in FinishFrames : e < f

\* C3: per channel, in the frames up to the finish frame: at most one start and
\* one end, an end iff a start, the start before every delta, every delta before
\* the end, the end before the finish frame (which is the last frame).
C3_ChannelFraming ==
    /\ \A ch \in Channels : ChannelFramed(ch)
    /\ \A f \in FinishFrames : f = Len(frames)

\* all three channels were opened, carried a delta and were closed by the finalization
C3_Witness ==
    /\ FinishFrames # {}
    /\ \A ch \in Channels :
           /\ FramesOf("text-start", ch) # {}
           /\ FramesOf("text-delta", ch) # {}
           /\ FramesOf("text-end", ch) # {}

ChannelFlags ==
    <<stream.textStarted, stream.textCompleted, stream.execStreamStarted,
      stream.execStreamCompleted, stream.reasoningStreamStarted,
      stream.reasoningStreamCompleted>>

\* C4: once the finish frame has been enqueued, every later event is ignored: no
\* frame is enqueued and the outcome and every channel's started/ended state
\* stay as they are.
C4_IgnoredAfterFinish ==
    [][ stream.finished =>
            /\ frames' = frames
            /\ ChannelFlags' = ChannelFlags
            /\ stream'.finished
            /\ controller' = controller ]_vars

-----------------------------------------------------------------------------
(* The client: pending requests, ids, the handshake, cancellation *)

PromisesOf(method) == {i \in 1..Len(promises) : promises[i].method = method}

\* the promises of the entries in the pending map
PendingPromises == {e.p : e \in client.pending}

\* the event of the step is a process exit or a hard transport error
FailureStep ==
    \/ last'.op \in {"exit", "error"}
    \/ last'.op = "line" /\ last'.what = "garbage"

SettledStay == \A i \in 1..Len(promises) : Settled(promises[i]) => promises'[i] = promises[i]

\* C5: an exit or a hard transport error on an open session with pending
\* requests rejects every one of them with the same error (for an exit: its code,
\* its signal and the buffered stderr text), empties the pending map and marks
\* the session closed; a later response for one of those ids settles nothing.
C5_PendingRejected ==
    [][ /\ (FailureStep /\ client.pending # {} /\ ~client.closed) =>
               /\ \A i \in PendingPromises : promises'[i].state = "rejected"
               /\ \A i, j \in PendingPromises : promises'[i].error = promises'[j].error
               /\ last'.op = "exit" =>
                      \A i \in PendingPromises :
                          /\ promises'[i].error.code = child'.code
                          /\ promises'[i].error.signal = child'.signal
                          /\ promises'[i].error.text = Concat(client.stderrChunks)
               /\ client'.pending = {}
               /\ client'.closed
        /\ SettledStay
        /\ \A i \in PendingPromises' : ~Settled(promises'[i]) ]_vars

\* three outstanding tools/call requests were rejected by the exit, with the
\* stderr text in the error, and a response for one of them came afterwards
C5_Witness ==
    /\ last.op = "line" /\ last.what = "response" /\ last.t \in 1..3
    /\ child.exited
    /\ client.stderrChunks # <<>>
    /\ Cardinality({i \in PromisesOf("tools/call") :
                        /\ promises[i].state = "rejected"
                        /\ promises[i].error =
                               ExitError(child.code, child.signal,
                                         Concat(client.stderrChunks))}) = 3

RequestIndexes == {i \in 1..Len(wire) : wire[i].kind = "request"}

\* C6: the k-th request issued on a session gets id k-1, whether or not its
\* signal was already aborted; the ids written to the subprocess increase.
C6_RequestIds ==
    /\ client.requestCounter = Len(promises)
    /\ \A k \in 1..Len(promises) : promises[k].id = k - 1
    /\ \A i, j \in RequestIndexes : i < j => wire[i].id < wire[j].id
    /\ \A e \in client.pending : e.key = toRequestKey(NumId(promises[e.p].id))

\* the second request was issued with an aborted signal and never written, and
\* the third request got id 2
C6_Witness ==
    /\ Len(promises) = 3
    /\ ~client.closed
    /\ promises[2].error = AbortError
    /\ \A i \in RequestIndexes : wire[i].id # 1
    /\ \E i \in RequestIndexes : wire[i].id = 2 /\ wire[i].method = "tools/call"

InitializeOutstanding ==
    {e \in client.pending : promises[e.p].method = "initialize"}

InitializedWritten ==
    {i \in 1..Len(wire) : wire[i].kind = "notification"
                          /\ wire[i].method = "notifications/initialized"}

\* an attempt has succeeded: initializeInternal has returned without throwing
Succeeded == client.initialized \/ initPromise.state = "fulfilled"

\* the first attempt of the session succeeded
FirstSucceeded == Succeeded /\ Cardinality(PromisesOf("initialize")) = 1

\* C9 as stated: a session whose first attempt succeeds has written exactly one
\* initialize request and exactly one notifications/initialized message.
C9_ExactlyOneOfEach ==
    FirstSucceeded =>
        /\ Cardinality(RequestsWritten("initialize")) = 1
        /\ Cardinality(InitializedWritten) = 1

\* C9 (amended): callers that arrive while an attempt is in flight share it, so
\* at most one initialize request is outstanding; once an attempt has succeeded
\* no further initialize request is issued and no further
\* notifications/initialized is written; a session whose first attempt succeeds
\* has written at most one of each, and exactly one of each when the session
\* was open at both writes.
C9_InitializeOnce ==
    [][ /\ Cardinality(InitializeOutstanding') <= 1
        /\ Succeeded =>
               /\ Succeeded'
               /\ PromisesOf("initialize")' = PromisesOf("initialize")
               /\ RequestsWritten("initialize")' = RequestsWritten("initialize")
               /\ InitializedWritten' = InitializedWritten
        /\ FirstSucceeded' =>
               /\ Cardinality(RequestsWritten("initialize")') <= 1
               /\ Cardinality(InitializedWritten') <= 1
               /\ ~client'.closed =>
                      /\ Cardinality(RequestsWritten("initialize")') = 1
                      /\ Cardinality(InitializedWritten') = 1 ]_vars

\* three callers, two of which shared the first one's attempt, have all returned
\* from initialize() after one handshake
C9_Witness ==
    /\ client.initialized
    /\ Cardinality(PromisesOf("initialize")) = 1
    /\ Cardinality(InitializedWritten) = 1
    /\ \A t \in DOMAIN tasks : tasks[t].pc \notin {"new", "initInternal", "initShared",
                                                    "initSharedSettled", "initOwner"}
    /\ last.op = "initializeShared"

\* the pending promise that listens to the signal of task t, if any
AbortedPromises(t) == {i \in PendingPromises : promises[i].signalOf = t}

\* C10: an abort of a request pending on an open session removes its pending
\* entry, writes notifications/cancelled with its id and rejects its promise
\* with an AbortError, in one step; a later response for that id changes nothing.
C10_AbortPending ==
    [][ /\ \A t \in DOMAIN tasks :
               (last'.op = "abort" /\ last'.t = t /\ ~client.closed) =>
                   \A i \in AbortedPromises(t) :
                       /\ i \notin PendingPromises'
                       /\ toRequestKey(NumId(promises[i].id)) \notin PendingKeys(World)'
                       /\ wire' = Append(wire, Notify("notifications/cancelled",
                                                      promises[i].id))
                       /\ promises'[i].state = "rejected"
                       /\ promises'[i].error.name = "AbortError"
        /\ \A i \in 1..Len(promises) :
               (/\ promises[i].error.name = "AbortError"
                /\ last'.op = "line" /\ last'.what = "response"
                /\ last'.t = promises[i].id) =>
                   UNCHANGED <<client, child, wire, promises, initPromise, signals, tasks>>
        /\ \A i \in 1..Len(promises') :
               promises'[i].error.name = "AbortError" =>
                   /\ promises'[i].signalOf # NoId
                   /\ signals'[promises'[i].signalOf].aborted ]_vars

\* a pending tools/call was aborted on an open session, and its response came later
C10_Witness ==
    /\ last.op = "line" /\ last.what = "response"
    /\ \E i \in PromisesOf("tools/call") :
           /\ promises[i].id = last.t
           /\ promises[i].error = AbortError
           /\ \E k \in 1..Len(wire) : wire[k] = Request(promises[i].id, "tools/call")
           /\ \E k \in 1..Len(wire) :
                  wire[k] = Notify("notifications/cancelled", promises[i].id)

-----------------------------------------------------------------------------
(* The text channel and the reasoning channel *)

\* the deltas emitted on a channel, in order
RECURSIVE DeltasOf(_, _)
DeltasOf(fs, id) ==
    IF fs = <<>> THEN <<>>
    ELSE IF Head(fs).type = "text-delta" /\ Head(fs).id = id
         THEN <<Head(fs).delta>> \o DeltasOf(Tail(fs), id)
         ELSE DeltasOf(Tail(fs), id)

HeardType(line) == line.message.notification.msg.type.v

\* the delta strings of a history of agent_message_delta events
HeardDeltas == [i \in 1..Len(heard) |-> heard[i].message.notification.msg.delta.s]

OnlyTextDeltas == \A i \in 1..Len(heard) : HeardType(heard[i]) = "agent_message_delta"

\* C7: a full-value agent_message F that follows a sequence of
\* agent_message_delta events whose concatenation D is a prefix of F emits one
\* text delta, the rest of F after D, and none when F = D; the text deltas
\* emitted so far then concatenate to F.
C7_FullAfterDeltas ==
    [][ LET line == heard'[Len(heard')]
            F == line.message.notification.msg.message.s
            D == Concat(HeardDeltas)
        IN (/\ Len(heard') = Len(heard) + 1
            /\ OnlyTextDeltas
            /\ HeardType(line) = "agent_message"
            /\ IsPrefix(D, F)) =>
               /\ DeltasOf(frames', "codex-text") =
                      DeltasOf(frames, "codex-text")
                          \o (IF F = D THEN <<>> ELSE <<SubSeq(F, Len(D) + 1, Len(F))>>)
               /\ Concat(DeltasOf(frames', "codex-text")) = F
               /\ \A i \in 1..Len(frames') : frames'[i].source = "" ]_vars

\* the deltas "a" and "b" were followed by the full value "abb", which emitted "b"
C7_Witness ==
    /\ Len(heard) = 3
    /\ HeardType(heard[1]) = "agent_message_delta"
    /\ HeardType(heard[2]) = "agent_message_delta"
    /\ heard[3] = CodexEvent("agent_message", NoMeta, WithMessage(<<97, 98, 98>>))
    /\ DeltasOf(frames, "codex-text") = <<<<97>>, <<98>>, <<98>>>>

\* the normalized form of a chunk as the dedup compares it: trimmed, '*'
\* removed, whitespace runs collapsed to one space
NormalForm(s) == CollapseSpace(SelectSeq(Trim(s), LAMBDA c : c # STAR))

\* the normalized form of the most recently emitted chunk whose normalized form
\* is non-empty, "" when there is none
RECURSIVE LastNormalForm(_)
LastNormalForm(deltas) ==
    IF deltas = <<>> THEN <<>>
    ELSE IF NormalForm(deltas[Len(deltas)]) # <<>> THEN NormalForm(deltas[Len(deltas)])
    ELSE LastNormalForm(SubSeq(deltas, 1, Len(deltas) - 1))

\* the reasoning text accumulated from a history of reasoning inputs: a delta
\* and a section break extend it, a full-value snapshot replaces it
RECURSIVE Accumulated(_)
Accumulated(h) ==
    IF h = <<>> THEN <<>>
    ELSE LET line == h[Len(h)]
             msg == line.message.notification.msg
             before == Accumulated(SubSeq(h, 1, Len(h) - 1))
         IN IF HeardType(line) = "agent_reasoning_delta" THEN before \o msg.delta.s
            ELSE IF HeardType(line) = "agent_reasoning" THEN msg.text.s
            ELSE before \o <<LF>>

\* the chunk a reasoning input offers for emission: the delta, a line feed for
\* a section break, and for a snapshot the whole text before any reasoning
\* delta was emitted and afterwards its part after the accumulated text
Offered(h, line, emitted) ==
    LET msg == line.message.notification.msg IN
    IF HeardType(line) = "agent_reasoning_delta" THEN msg.delta.s
    ELSE IF HeardType(line) = "agent_reasoning_section_break" THEN <<LF>>
    ELSE IF emitted = <<>> THEN msg.text.s
    ELSE LET acc == Accumulated(h)
             shared == CHOOSE n \in 0..Len(acc) :
                           /\ n <= Len(msg.text.s)
                           /\ SubSeq(acc, 1, n) = SubSeq(msg.text.s, 1, n)
                           /\ (n < Len(acc) /\ n < Len(msg.text.s)) =>
                                  acc[n + 1] # msg.text.s[n + 1]
         IN SubSeq(msg.text.s, shared + 1, Len(msg.text.s))

\* C8: no two consecutive emitted reasoning deltas have equal non-empty
\* normalized forms; a chunk with a non-empty normalized form is emitted if and
\* only if that form differs from the normalized form of the most recently
\* emitted chunk whose normalized form was non-empty.
C8_ReasoningDedup ==
    [][ LET before == DeltasOf(frames, "codex-reasoning")
            after == DeltasOf(frames', "codex-reasoning")
        IN /\ \A i \in 1..(Len(after) - 1) :
                  NormalForm(after[i]) # <<>> => NormalForm(after[i]) # NormalForm(after[i + 1])
           /\ Len(heard') = Len(heard) + 1 =>
                  LET chunk == Offered(heard, heard'[Len(heard')], before)
                  IN NormalForm(chunk) # <<>> =>
                         /\ after \in {before, Append(before, chunk)}
                         /\ (after = Append(before, chunk))
                                <=> (NormalForm(chunk) # LastNormalForm(before)) ]_vars

\* "a" was emitted, then a section break, then "*a " was offered and suppressed
\* because it normalizes to "a" like the last chunk with a non-empty form
C8_Witness ==
    /\ Len(heard) = 3
    /\ heard[2] = CodexEvent("agent_reasoning_section_break", NoMeta, EmptyMsg)
    /\ heard[3] = CodexEvent("agent_reasoning_delta", NoMeta, WithDelta(<<STAR, 97>>))
    /\ DeltasOf(frames, "codex-reasoning") = <<<<97>>, <<LF>>>>

-----------------------------------------------------------------------------
(* The client: responses *)

\* the pending entries a response with this id answers
Answered(id) == {e \in client.pending : e.key = toRequestKey(id)}

\* C11: a response settles only the pending request whose key equals its id,
\* once: resolved with the result (null when absent) when the response has no
\* error object, otherwise rejected with an Error built from error.message and
\* error.data, and the entry is removed; a response whose id has no pending
\* entry changes no state.
C11_ResponseSettles ==
    [][ (Len(heard') = Len(heard) + 1) =>
            LET message == heard'[Len(heard')].message
                hit == Answered(message.id)
            IN /\ Cardinality(hit) <= 1
               /\ hit = {} =>
                      UNCHANGED <<client, child, wire, promises, initPromise, signals, tasks>>
               /\ \A e \in hit :
                      /\ promises[e.p].state = "pending"
                      /\ promises'[e.p] =
                             IF message.hasError
                             THEN [promises[e.p] EXCEPT
                                      !.state = "rejected",
                                      !.error = MkError("Error", message.errorMessage, "", "",
                                                        message.errorData)]
                             ELSE [promises[e.p] EXCEPT
                                      !.state = "resolved",
                                      !.value = IF message.hasResult THEN message.result
                                                ELSE NullResult]
               /\ client'.pending = client.pending \ hit
               /\ \A i \in 1..Len(promises) :
                      i \notin {e.p : e \in hit} => promises'[i] = promises[i]
               /\ Len(promises') = Len(promises)
               /\ wire' = wire ]_vars

\* the call with id 1 was rejected by an error response, and a second response
\* for id 1, with the id as a string, found no entry
C11_Witness ==
    /\ Len(heard) = 3
    /\ heard[2] = ErrorResponse(NumId(1), "call failed", <<100>>)
    /\ heard[3] = Response(StrId(<<49>>), EmptyObject)
    /\ Len(promises) >= 2
    /\ promises[2].state = "rejected"
    /\ promises[2].error = ResponseError("call failed", <<100>>)

-----------------------------------------------------------------------------
(* The client: notifications *)

\* the line is a message with a method and no id
IsNotificationLine(line) ==
    /\ line.kind = "json"
    /\ line.message.isObject
    /\ ~line.message.hasId
    /\ line.message.hasMethod

\* one call of every listener of hs, in registration order, with notification n
CallsInOrder(hs, n) == [i \in 1..Len(hs) |-> [handler |-> hs[i], notification |-> n]]

\* C12: every inbound message that has a method and no id is delivered to
\* every listener registered at that moment, in registration order, before
\* the next line is processed; a disposed listener receives nothing and the
\* router neither deduplicates nor filters by payload.
C12_FanOut ==
    [][ (Len(heard') = Len(heard) + 1 /\ IsNotificationLine(heard'[Len(heard')])) =>
            delivered' = CallsInOrder(client.notificationHandlers,
                                      heard'[Len(heard')].message.notification) ]_vars

-----------------------------------------------------------------------------
(* The generation: the call's result and the terminal notifications *)

\* start() resumes after `await callPromise` in this step
CallResumes == tasks[StreamTask].pc = "callReturn" /\ tasks'[StreamTask].pc = "done"

\* C13: the outcome set by a terminal notification is final: when the
\* tools/call result or rejection is handled afterwards it enqueues no frame
\* and leaves the controller and the finished flags as they are.
C13_NotificationFinal ==
    [][ (stream.finishedViaNotification /\ CallResumes) =>
            /\ frames' = frames
            /\ controller' = controller
            /\ stream'.finished /\ stream.finished
            /\ uncaught' = uncaught ]_vars

\* task_complete finished the generation with 'stop', then the call was
\* rejected by an abort and start() resumed with the rejection
C13_Witness ==
    /\ stream.finishedViaNotification
    /\ tasks[StreamTask].pc = "done"
    /\ tasks[StreamTask].error = AbortError
    /\ last.op = "startAfterCall"
    /\ FinishReasons = {"stop"}
    /\ ErrorFrames = {}

\* task_complete finished the generation, then the call's result with text
\* arrived and start() resumed with it
C13_WitnessResult ==
    /\ stream.finishedViaNotification
    /\ tasks[StreamTask].pc = "done"
    /\ tasks[StreamTask].error = NoError
    /\ tasks[StreamTask].value = TextResult(<<97, 98>>, FALSE)
    /\ last.op = "startAfterCall"
    /\ FramesOf("text-delta", "codex-text") = {}


\* start() resumes with a result that is an object not flagged as an error,
\* the generation still running and no terminal notification handled
ResultResumes ==
    /\ CallResumes
    /\ tasks[StreamTask].error = NoError
    /\ tasks[StreamTask].value.kind = "object"
    /\ ~tasks[StreamTask].value.isError
    /\ ~stream.finishedViaNotification
    /\ ~stream.finished

\* the part of text a full-value text event would emit
BeyondShared(text) ==
    IF stream.textStarted
    THEN Slice(text, sharedPrefixLength(stream.lastAgentMessage, text))
    ELSE text

\* C14: the text extracted from a call result that is not an error is treated
\* like a full-value text event: only the part beyond its shared leading run
\* with the accumulated text is emitted (nothing when entirely shared), and
\* the generation finishes with 'stop'.
C14_ResultAsFullText ==
    [][ ResultResumes =>
            LET text == BeyondShared(extractTextFromResult(tasks[StreamTask].value))
            IN /\ DeltasOf(frames', "codex-text") =
                      DeltasOf(frames, "codex-text") \o
                          (IF text = <<>> THEN <<>> ELSE <<text>>)
               /\ FinishReasons' = {"stop"} ]_vars


\* start() resumes with a result that is flagged isError or is not an object,
\* the generation still running and no terminal notification handled
ErrorResultResumes ==
    /\ CallResumes
    /\ tasks[StreamTask].error = NoError
    /\ tasks[StreamTask].value.kind # "object" \/ tasks[StreamTask].value.isError
    /\ ~stream.finishedViaNotification
    /\ ~stream.finished

\* the error such a result is surfaced as
ResultError(result) ==
    IF result.kind # "object"
    THEN PlainError("Codex MCP tool returned an invalid result", <<>>)
    ELSE IF extractTextFromResult(result) # <<>>
    THEN PlainError("tool", extractTextFromResult(result))
    ELSE PlainError("Codex MCP tool invocation failed", <<>>)

\* C15: a call result that is flagged isError or is not an object finishes the
\* generation with 'error': exactly one error frame is enqueued, carrying the
\* text extracted from the result or a fixed fallback message, and no delta is
\* emitted from the result on any channel.
C15_ErrorResult ==
    [][ ErrorResultResumes =>
            /\ Outcome' = <<ErrorPart(ResultError(tasks[StreamTask].value)),
                            FinishPart("error")>>
            /\ \A c \in Channels : DeltasOf(frames', c) = DeltasOf(frames, c)
            /\ controller'.closed
            /\ uncaught' = uncaught ]_vars

\* a result flagged isError whose text is "a" was surfaced after a text delta
C15_Witness ==
    /\ last.op = "startAfterCall"
    /\ tasks[StreamTask].value = TextResult(<<97>>, TRUE)
    /\ Errors = {PlainError("tool", <<97>>)}
    /\ FinishReasons = {"error"}
    /\ stream.textStarted
    /\ ~stream.finishedViaNotification
    /\ ~signals[StreamTask].aborted

\* a result that is a JSON string was surfaced with the fallback message
C15_WitnessInvalid ==
    /\ last.op = "startAfterCall"
    /\ tasks[StreamTask].value = StringResult
    /\ Errors = {PlainError("Codex MCP tool returned an invalid result", <<>>)}
    /\ FinishReasons = {"error"}

-----------------------------------------------------------------------------
(* The client: unparsable lines and the closed state *)

\* the step handles an unparsable line
GarbageStep == last'.op = "line" /\ last'.what = "garbage"

\* C16: an unparsable inbound line does not crash the session: the session is
\* not marked closed by it and the requests that were pending stay pending.
C16_GarbageKeepsSession ==
    [][ GarbageStep =>
            /\ client'.closed = client.closed
            /\ client'.pending = client.pending
            /\ promises' = promises ]_vars


\* C17: the closed state is absorbing and inert: a closed session never
\* becomes open again, no later send writes to the subprocess or raises an
\* error, and a later close() changes nothing; close() closes the reader and
\* sends the termination signal at most once.
C17_ClosedInert ==
    [][ /\ client.closed =>
            /\ client'.closed
            /\ wire' = wire
            /\ child'.readerClosed = child.readerClosed
            /\ child'.stdinEnded = child.stdinEnded
            /\ child'.kills = child.kills
            /\ uncaught' = uncaught
        /\ child'.readerClosed <= 1
        /\ child'.kills <= 1
        /\ (client.closed /\ last'.op = "close") =>
               UNCHANGED <<client, child, wire, promises, initPromise, signals, tasks>> ]_vars

\* a session closed by close() with a call pending: the call was then aborted
\* (its cancellation notice was not written), another caller started a
\* request, and close() was called again
C17_Witness ==
    /\ client.closed
    /\ child.kills = 1
    /\ last.op = "close"
    /\ \E t \in ClientTasks : signals[t].aborted
    /\ client.requestCounter > Len(wire)
    /\ \A i \in 1..Len(wire) : wire[i].method # "notifications/cancelled"

-----------------------------------------------------------------------------
(* The generation: notifications of other requests *)

\* the request id a notification carries is the id: the number itself or its
\* decimal string
MatchesRequest(meta, id) ==
    \/ meta.kind = "number" /\ meta.n = id
    \/ meta.kind = "string" /\ meta.s = DecimalString(id)

\* the step handled a codex/event notification that carries a request id
\* other than the, known, id of the tools/call
ForeignStep ==
    /\ Len(heard') = Len(heard) + 1
    /\ IsNotificationLine(heard'[Len(heard')])
    /\ startsWithCodexEvent(heard'[Len(heard')].message.notification.method)
    /\ stream.callRequestId # NoId
    /\ heard'[Len(heard')].message.notification.meta.has
    /\ ~MatchesRequest(heard'[Len(heard')].message.notification.meta, stream.callRequestId)

\* C18: once the id of the tools/call is known, a codex/event notification
\* whose _meta.requestId is present and does not match it is ignored: no frame
\* is enqueued, no channel or accumulated-text state changes, and the
\* generation is not finished by it.
C18_ForeignIgnored ==
    [][ ForeignStep => UNCHANGED <<frames, stream, controller, client, child, wire>> ]_vars

-----------------------------------------------------------------------------
(* The generation: the awaits of start() *)

\* start() is suspended at `await callPromise`
AwaitingCall ==
    /\ tasks[StreamTask].phase = "call"
    /\ tasks[StreamTask].pc = "callAwait"

\* one of the events that resume the task has occurred: the response, a
\* terminal notification, a transport error, the process exit or an abort
Resumable ==
    \/ Settled(promises[tasks[StreamTask].p])
    \/ stream.finishedViaNotification
    \/ child.errored
    \/ child.exited
    \/ signals[StreamTask].aborted

\* C19: once a response, a terminal notification, a transport error, the
\* process exit or a cancellation has occurred while start() awaits the
\* tools/call, the await eventually completes and the cleanup of start() runs.
C19_AwaitCompletes ==
    (AwaitingCall /\ Resumable) ~> (tasks[StreamTask].pc = "done")


\* the abort signal of the generation fires in this step
AbortStep == last'.op = "abort" /\ last'.t = StreamTask

\* C20: an abort that fires while the generation is running finishes it in the
\* same step with outcome 'error' carrying an AbortError, exactly once, and
\* the request that is pending at that moment (initialize or tools/call) is
\* rejected rather than left pending.
C20_AbortShortCircuits ==
    [][ (AbortStep /\ Running) =>
            /\ Outcome' = <<ErrorPart(AbortError), FinishPart("error")>>
            /\ controller'.closed
            /\ \A e \in client.pending : promises'[e.p].state = "rejected" ]_vars

-----------------------------------------------------------------------------
(* The generation: releasing the transport *)

\* C21: every finalization releases the transport: in every state where a
\* finish frame has been enqueued the controller is closed, the session is
\* closed and the termination of the subprocess has been requested, whatever
\* finished the generation; the adapter requests the close at most once.
C21_FinishReleases ==
    /\ FinishFrames # {} =>
           /\ controller.closed
           /\ stream.clientClosed
           /\ client.closed
           /\ child.readerClosed = 1
           /\ child.kills = 1
    /\ child.kills <= 1
    /\ stream.clientClosed => FinishFrames # {} \/ tasks[StreamTask].pc = "done"

\* a generation finished by the exit of the subprocess: the close was still
\* requested, once
C21_Witness ==
    /\ FinishReasons = {"error"}
    /\ child.exited
    /\ ~signals[StreamTask].aborted
    /\ client.closed
    /\ child.kills = 1
    /\ Cardinality(RequestsWritten("tools/call")) = 1

-----------------------------------------------------------------------------
(* The generation: command output *)

\* the step handled an exec_command_output_delta notification
ExecStep ==
    /\ Len(heard') = Len(heard) + 1
    /\ IsNotificationLine(heard'[Len(heard')])
    /\ HeardType(heard'[Len(heard')]) = "exec_command_output_delta"

Printable(s) ==
    \A i \in 1..Len(s) : (s[i] >= 32 \/ s[i] \in {9, 10, 13}) /\ s[i] # 65533

\* the chunk with whitespace removed
WithoutSpace(s) == SelectSeq(s, LAMBDA c : ~IsSpace(c))

\* base64 digits followed by at most two '='
LooksBase64(s) ==
    \E pad \in 0..2 :
        /\ Len(s) > pad
        /\ \A i \in 1..Len(s) :
               IF i > Len(s) - pad THEN s[i] = 61 ELSE Base64Index(s[i]) # NoId

\* the text base64 digits stand for
Base64Text(s) == Utf8Decode(Base64Bytes(StripPadding(s)))

\* the delta a chunk is to produce; the empty string when there is none
ChunkDelta(raw) ==
    LET packed == WithoutSpace(raw) IN
    IF /\ Len(packed) > 0
       /\ Len(packed) % 4 = 0
       /\ LooksBase64(packed)
       /\ Base64Text(packed) # <<>>
       /\ Printable(Base64Text(packed))
    THEN Base64Text(packed)
    ELSE IF Printable(raw) THEN raw ELSE <<>>

\* "Hello"
Hello == <<72, 101, 108, 108, 111>>

\* C23: with command output enabled, a chunk that is base64 of non-empty
\* printable text emits the decoded text, any other chunk emits itself when it
\* is printable text, and anything else emits nothing and starts no channel;
\* "SGVsbG8=" and a newline emit "Hello", a chunk with a NUL emits nothing.
C23_ChunkDecoding ==
    [][ (ExecStep /\ ~stream.finished /\ heard'[Len(heard')].message.notification.msg.chunk.str) =>
            LET raw == heard'[Len(heard')].message.notification.msg.chunk.s
                delta == ChunkDelta(raw)
            IN /\ DeltasOf(frames', "codex-exec") =
                      DeltasOf(frames, "codex-exec") \o
                          (IF delta = <<>> THEN <<>> ELSE <<delta>>)
               /\ delta = <<>> => frames' = frames /\ stream' = stream
               /\ raw = <<83, 71, 86, 115, 98, 71, 56, 61, 10>> => delta = Hello
               /\ (\E i \in 1..Len(raw) : raw[i] = 0) => delta = <<>> ]_vars

\* "SGVsbG8=\n" was decoded to "Hello", "a" NUL was dropped, and "abcd", whose
\* decoding is not text, was passed as it is
C23_Witness ==
    /\ Len(heard) = 3
    /\ heard[1] = CodexEvent("exec_command_output_delta", NoMeta,
                             WithChunk(<<83, 71, 86, 115, 98, 71, 56, 61, 10>>))
    /\ heard[2] = CodexEvent("exec_command_output_delta", NoMeta, WithChunk(<<97, 0>>))
    /\ heard[3] = CodexEvent("exec_command_output_delta", NoMeta,
                             WithChunk(<<97, 98, 99, 100>>))
    /\ DeltasOf(frames, "codex-exec") = <<Hello, <<97, 98, 99, 100>> >>

-----------------------------------------------------------------------------
(* C24: applying the patch is idempotent and race-free *)

\* the caller hands over a module with Provider.getModel, or passes nothing
\* where the import strategies resolve to one
ValidModule(injected) ==
    \/ injected = "mock"
    \/ injected = "undefined" /\ isValidProviderModule("opencode")

AllValid == \A c \in DOMAIN calls : ValidModule(calls[c].module)

LastCall == calls[Len(calls)]

\* how often Provider.getModel has been replaced, over all modules
Replacements == Provider["opencode"].replaced + Provider["mock"].replaced
                    + Provider["bare"].replaced

PromiseSettled(c) == attempts[calls[c].promise].stage = "done"

-----------------------------------------------------------------------------
(* C25: a failed application leaves nothing behind *)

Fails(a) == a \in DOMAIN attempts' /\ attempts'[a].failed
               /\ (a \in DOMAIN attempts => ~attempts[a].failed)

ImportError == Cause(Error(<<PROVIDER_IMPORT_FAILED, ". Tried strategies:">>))
InjectionError ==
    Cause(Error(<<"Injected module structure invalid (missing Provider.getModel)">>))

Rejected(a) == attempts[a].failed /\ attempts[a].stage = "done"

C25_WitnessInjected ==
    /\ Len(calls) >= 1 /\ calls[1].module = "bare" /\ Rejected(calls[1].promise)
    /\ attempts[1].error = InjectionError
    /\ ~isPatchApplied /\ Replacements = 0 /\ patchPromise = 0

-----------------------------------------------------------------------------
(* C26: unknown providers and models *)

\* the getModel call made by this step
Requested == Len(requests') = Len(requests) + 1
NewestRequest == requests[Len(requests)]

\* the provider is configured, and the model is configured under it
Configured(providerID, modelID) ==
    /\ providerID \in DOMAIN patchState.providers
    /\ modelID \in DOMAIN patchState.providers[providerID].info.models

\* the models Map holds an entry for the pair that has not expired
ValidEntry(providerID, modelID) ==
    \E i \in DOMAIN patchState.models :
        /\ patchState.models[i].key = generateCacheKey(providerID, modelID)
        /\ isCacheEntryValid(patchState.models[i])

\* C26: a getModel call for a provider that is not configured, or for a model
\* that is not configured under its provider, with no valid cache entry for the
\* pair, rejects at once with the ModelNotFoundError of that provider and model,
\* having called neither a custom factory nor the original getModel, and adds no
\* cache entry.
C26_NotFound ==
    [][ Requested =>
            LET request == NewestRequest'
            IN  (/\ ~Configured(request.providerID, request.modelID)
                 /\ ~ValidEntry(request.providerID, request.modelID)) =>
                    /\ request.pc = "done"
                    /\ ~request.outcome.ok
                    /\ request.outcome.error =
                           CustomModelNotFoundError(request.providerID, request.modelID)
                    /\ request.originalCalls = <<>>
                    /\ request.factoryCalls = 0
                    /\ patchState'.models = patchState.models ]_vars

-----------------------------------------------------------------------------
(* C27: a factory module without a usable factory *)

\* the providerFactory option of the provider names a module that can be
\* imported and from which extractFactory extracts nothing
Unusable(providerID) ==
    /\ providerID \in DOMAIN patchState.providers
    /\ LET option == patchState.providers[providerID].options.providerFactory
       IN  /\ option.t = "string"
           /\ option.s \in DOMAIN FactoryModules
           /\ ~extractFactory(FactoryModules[option.s], option.s).ok

ExtractionError(providerID) ==
    LET path == patchState.providers[providerID].options.providerFactory.s
    IN  extractFactory(FactoryModules[path], path).error

Resumed(r) == r \in DOMAIN requests /\ requests[r].pc = "import" /\ requests'[r].pc = "done"

\* C27: every getModel call for a configured model of a provider whose factory
\* module exposes no usable factory imports the module and then rejects with the
\* InitError of that provider whose cause is the extraction error, calls no
\* factory and leaves the models Map as it was; so no call for the pair is ever
\* answered from the cache, and each repeated call rejects the same way.
C27_InitError ==
    [][ /\ \A r \in DOMAIN requests' :
               (Resumed(r) /\ Unusable(requests[r].providerID)) =>
                   /\ requests'[r].outcome =
                          Throw(CustomInitError(requests[r].providerID,
                                                ExtractionError(requests[r].providerID)))
                   /\ requests'[r].outcome.error.cause =
                          Cause(ExtractionError(requests[r].providerID))
                   /\ requests'[r].factoryCalls = 0 /\ ~requests'[r].wrote
                   /\ patchState'.models = patchState.models
        /\ Requested =>
               LET request == NewestRequest'
               IN  (/\ Unusable(request.providerID)
                    /\ Configured(request.providerID, request.modelID)) =>
                       /\ request.pc = "import"
                       /\ ~ValidEntry(request.providerID, request.modelID) ]_vars

\* two calls for the same pair, one after the other, were rejected with the
\* same InitError and nothing was cached
C27_Witness ==
    /\ Len(requests) >= 2
    /\ Unusable("codex")
    /\ requests[1].providerID = "codex" /\ requests[1].modelID = "gpt-5-codex"
    /\ requests[2].providerID = "codex" /\ requests[2].modelID = "gpt-5-codex"
    /\ requests[1].pc = "done" /\ requests[2].pc = "done"
    /\ requests[1].at < requests[2].at
    /\ requests[1].outcome.error.name = "ProviderInitError"
    /\ requests[2].outcome = requests[1].outcome
    /\ patchState.models = <<>>

-----------------------------------------------------------------------------
(* C28: the models cache *)

\* call r loaded its model through a custom factory, cached it and returned it
Loaded(r) == requests[r].pc = "done" /\ requests[r].wrote

SamePair(r, request) ==
    /\ requests[r].providerID = request.providerID
    /\ requests[r].modelID = request.modelID

\* the entry written by call r cannot have expired, and the Map has never
\* held more entries than it keeps
StillValid(r) ==
    /\ now - requests[r].at < TTL_MS
    /\ Cardinality({generateCacheKey(requests[q].providerID, requests[q].modelID) :
                        q \in {q \in DOMAIN requests : Loaded(q)}}) <= MAX_SIZE

\* C28: once a getModel call has loaded a model through a custom factory and
\* returned result R, every later getModel call for the same provider and model,
\* made while the entry is still valid, returns the identical object R at once
\* from the cache, importing nothing and calling no factory.
C28_CachedIdentity ==
    [][ Requested =>
            LET request == NewestRequest'
            IN  \A r \in DOMAIN requests :
                    (Loaded(r) /\ SamePair(r, request) /\ StillValid(r)) =>
                        /\ request.pc = "done" /\ request.fromCache
                        /\ request.outcome = requests[r].outcome
                        /\ ~request.imported /\ request.factoryCalls = 0 ]_vars

-----------------------------------------------------------------------------
(* C29: providers without a providerFactory *)

\* the provider is configured and its options hold no string providerFactory
NoFactory(providerID) ==
    /\ providerID \in DOMAIN patchState.providers
    /\ patchState.providers[providerID].options.providerFactory.t # "string"

\* C29: a getModel call for a configured model of a provider that has no string
\* providerFactory option settles at once with what the original getModel made
\* of the same two arguments, result or error, the original having been called
\* exactly once; no factory module is imported, no factory is called, and the
\* models Map is left as it was.
C29_Fallback ==
    [][ Requested =>
            LET request == NewestRequest'
            IN  (/\ NoFactory(request.providerID)
                 /\ Configured(request.providerID, request.modelID)) =>
                    /\ request.pc = "done"
                    /\ request.originalCalls = <<<<request.providerID, request.modelID>>>>
                    /\ request.outcome \in OriginalOutcomes(Len(requests'), request.providerID,
                                                            request.modelID)
                    /\ ~request.fromCache /\ ~request.imported
                    /\ request.factoryCalls = 0 /\ ~request.wrote
                    /\ patchState'.models = patchState.models ]_vars

\* the second provider has no providerFactory: one call got the result of the
\* original getModel and another its error, and nothing was cached
C29_Witness ==
    /\ Len(requests) >= 2
    /\ requests[1].providerID = "openai" /\ requests[1].modelID = "gpt-4o"
    /\ requests[2].providerID = "openai" /\ requests[2].modelID = "gpt-4o"
    /\ requests[1].outcome.ok /\ requests[1].outcome.value.language = "sdk"
    /\ ~requests[2].outcome.ok /\ requests[2].outcome.error = Error(<<"sdk failure">>)
    /\ Len(requests[1].originalCalls) = 1 /\ Len(requests[2].originalCalls) = 1
    /\ patchState.models = <<>>

\* a providerFactory option that is not a string is no custom factory
C29_WitnessNumber ==
    /\ Len(requests) >= 1
    /\ patchState.providers["codex"].options.providerFactory = Number
    /\ requests[1].providerID = "codex" /\ requests[1].modelID = "gpt-4o"
    /\ requests[1].originalCalls = <<<<"codex", "gpt-4o">>>>

-----------------------------------------------------------------------------
(* C30: extractFactory *)

IsFunction(value) == value.t = "function"

\* the parts of a message begin with the parts given
StartsWith(message, parts) ==
    Len(message) >= Len(parts) /\ SubSeq(message, 1, Len(parts)) = parts

\* C30: extractFactory returns the createCodexProvider export if that is a
\* function, else the default export if that is a function, else
\* default.createCodexProvider if that is a function, each time the very
\* function it found; for every other module, null and undefined included, it
\* throws an error whose message begins "Custom provider factory did not expose
\* createCodexProvider in <modulePath>".
C30_ExtractionPriority ==
    \A i \in {i \in DOMAIN extraction : extraction[i].called} :
        LET moduleObject == extraction[i].moduleObject
            result == extraction[i].result
            named == Get(moduleObject, "createCodexProvider")
            default == Get(moduleObject, "default")
            nested == Get(default, "createCodexProvider")
        IN  IF IsFunction(named) THEN result = Ok(named)
            ELSE IF IsFunction(default) THEN result = Ok(default)
            ELSE IF IsFunction(nested) THEN result = Ok(nested)
            ELSE /\ ~result.ok
                 /\ StartsWith(result.error.message,
                               <<FACTORY_NOT_FOUND, " in ", extraction[i].modulePath>>)

\* a module with both a createCodexProvider function and a default function
\* yielded the named one
C30_Witness ==
    /\ extraction # <<>> /\ extraction[1].called
    /\ IsFunction(Get(extraction[1].moduleObject, "createCodexProvider"))
    /\ IsFunction(Get(extraction[1].moduleObject, "default"))
    /\ extraction[1].result = Ok(Fn("createCodexProvider"))

\* null was refused with the message naming the module path
C30_WitnessNull ==
    /\ extraction # <<>> /\ extraction[1].called
    /\ extraction[1].moduleObject = Null
    /\ extraction[1].result.error.message =
           <<FACTORY_NOT_FOUND, " in ", "./factory.js", ". Module is ", "null", ".">>

\* a default object that holds the factory
C30_WitnessNested ==
    /\ extraction # <<>> /\ extraction[1].called
    /\ extraction[1].result = Ok(Fn("nested"))

-----------------------------------------------------------------------------
(* C31: the defaults of the provider options *)

\* the step handled a notification of this type while the generation ran
HeardStep(type) ==
    /\ Len(heard') = Len(heard) + 1
    /\ IsNotificationLine(heard'[Len(heard')])
    /\ HeardType(heard'[Len(heard')]) = type
    /\ stream.callRequestId # NoId
    /\ ~stream.finished

\* C31: with no provider option set, streamReasoning and streamCommandOutput
\* are on and includeMessageSource is off: the first reasoning delta and every
\* command-output delta add a delta to their channel, and no delta carries a
\* source.
C31_Defaults ==
    [][ /\ stream.includeReasoning /\ stream.includeCommandOutput
        /\ ~stream.includeMessageSource
        /\ (HeardStep("agent_reasoning_delta") /\ DeltasOf(frames, "codex-reasoning") = <<>>) =>
               Len(DeltasOf(frames', "codex-reasoning")) = 1
        /\ HeardStep("exec_command_output_delta") =>
               Len(DeltasOf(frames', "codex-exec")) = Len(DeltasOf(frames, "codex-exec")) + 1
        /\ \A i \in 1..Len(frames') : frames'[i].source = "" ]_vars

-----------------------------------------------------------------------------
(* C32: the order of the handshake on the wire *)

\* the messages the step writes to the subprocess
Written == {wire'[i] : i \in (Len(wire) + 1)..Len(wire')}

\* the requests the step issues, written or not
Issued == {promises'[p] : p \in (Len(promises) + 1)..Len(promises')}

\* a response without an error has resolved an initialize request
InitializeAnswered ==
    \E p \in PromisesOf("initialize") :
        /\ promises[p].state = "resolved"
        /\ ~(promises[p].value.kind = "object" /\ promises[p].value.hasErrorKey)

\* the initialize() of the call of task t has failed
InitializeRejected(t) ==
    \/ /\ tasks[t].pc = "initInternal"
       /\ \/ promises[tasks[t].p].state = "rejected"
          \/ /\ promises[tasks[t].p].state = "resolved"
             /\ promises[tasks[t].p].value.kind = "object"
             /\ promises[tasks[t].p].value.hasErrorKey
    \/ tasks[t].pc = "initOwner" /\ initPromise.state = "rejected"
    \/ tasks[t].pc \in {"initSharedSettled", "initReturn"} /\ tasks[t].error # NoError

\* C32: notifications/initialized is written only once a response without an
\* error has resolved an initialize request; a tools/call request is issued only
\* on an initialized session and written only after notifications/initialized;
\* a call whose initialize() failed writes nothing more and issues no request.
C32_HandshakeOrder ==
    [][ /\ Notify("notifications/initialized", NoId) \in Written =>
               /\ InitializeAnswered
               /\ last'.op = "initializeInternal"
        /\ \A m \in Written : (m.kind = "request" /\ m.method = "tools/call") =>
               InitializedWritten # {}
        /\ \A q \in Issued : q.method = "tools/call" =>
               /\ client.initialized
               /\ InitializeAnswered
               /\ last'.op = "callCodex"
               /\ tasks[last'.t].error = NoError
        /\ \A t \in DOMAIN tasks :
               (InitializeRejected(t) /\ last'.t = t /\ last'.op # "line") =>
                   /\ wire' = wire
                   /\ promises' = promises
                   /\ ~InitializeRejected(t)' => Returned(t)' ]_vars

\* a caller of callCodex has its tools/call request on the wire, after
\* initialize and notifications/initialized
C32_Witness ==
    /\ Len(wire) >= 3
    /\ wire[1] = Request(0, "initialize")
    /\ wire[2] = Notify("notifications/initialized", NoId)
    /\ wire[3].kind = "request" /\ wire[3].method = "tools/call"

\* the initialize request was answered with an error: the call has returned and
\* only the initialize request was written
C32_WitnessRejected ==
    /\ tasks[1].op = "callCodex"
    /\ tasks[1].pc = "callReturn"
    /\ tasks[1].error # NoError
    /\ promises[1].state = "rejected"
    /\ wire = <<Request(0, "initialize")>>
    /\ ~client.closed

-----------------------------------------------------------------------------
(* C33: reasoning section breaks *)

BreakSource == "agent_reasoning_section_break"

\* the reasoning deltas enqueued so far
ReasoningDeltas ==
    SelectSeq(frames, LAMBDA f : f.type = "text-delta" /\ f.id = "codex-reasoning")

\* the last reasoning chunk that was emitted, <<>> when there is none
LastReasoningDelta ==
    IF ReasoningDeltas = <<>> THEN <<>> ELSE ReasoningDeltas[Len(ReasoningDeltas)].delta

\* a section break was the last event to emit a reasoning chunk: the run of
\* section breaks it belongs to is not over
InRun ==
    /\ ReasoningDeltas # <<>>
    /\ ReasoningDeltas[Len(ReasoningDeltas)].source = BreakSource

\* the step enqueues the newline delta of a section break, after the start
\* frame of the reasoning channel when the channel was absent
NewlineEmitted ==
    frames' = frames
              \o (IF FramesOf("text-start", "codex-reasoning") = {}
                  THEN <<TextStart("codex-reasoning")>> ELSE <<>>)
              \o <<TextDelta("codex-reasoning", <<LF>>, BreakSource)>>

\* C33 as stated: a section break emits at most one newline delta; the first
\* break of a run (no section break was the last to emit a reasoning chunk)
\* emits exactly one, after opening the reasoning channel if it was absent, and
\* the later breaks of the run emit nothing; with reasoning streaming disabled
\* a section break emits nothing.
C33_OnePerRun ==
    [][ HeardStep(BreakSource) =>
            IF ~stream.includeReasoning \/ InRun THEN frames' = frames
            ELSE NewlineEmitted ]_vars

\* C33 (amended): a section break emits exactly one newline delta, after opening
\* the reasoning channel if it was absent, unless the last reasoning chunk
\* emitted is already "\n" (by a section break or by a reasoning delta "\n"),
\* and then it emits nothing; with reasoning streaming disabled it emits nothing.
C33_SectionBreak ==
    [][ HeardStep(BreakSource) =>
            IF ~stream.includeReasoning \/ LastReasoningDelta = <<LF>> THEN frames' = frames
            ELSE NewlineEmitted ]_vars

\* a run of two section breaks after the chunk "a" has emitted one newline delta
C33_Witness ==
    /\ Len(heard) = 3
    /\ HeardType(heard[2]) = BreakSource
    /\ HeardType(heard[3]) = BreakSource
    /\ DeltasOf(frames, "codex-reasoning") = << <<97>>, <<LF>> >>
    /\ InRun

\* a section break that follows the reasoning delta "\n" has emitted nothing
C33_WitnessNewline ==
    /\ Len(heard) = 2
    /\ HeardType(heard[1]) = "agent_reasoning_delta"
    /\ HeardType(heard[2]) = BreakSource
    /\ stream.callRequestId # NoId
    /\ DeltasOf(frames, "codex-reasoning") = << <<LF>> >>
    /\ ~InRun

\* section breaks with reasoning streaming disabled
C33_WitnessDisabled ==
    /\ ~stream.includeReasoning
    /\ stream.callRequestId # NoId
    /\ Len(heard) = 2
    /\ \A i \in 1..2 : HeardType(heard[i]) = BreakSource
    /\ frames = <<>>

-----------------------------------------------------------------------------
(* C34: the error frame of a generation that fails *)

\* the step finalizes the generation
Finalizing == ~stream.finished /\ stream'.finished

\* the frames the step enqueues
Enqueued == SubSeq(frames', Len(frames) + 1, Len(frames'))

\* the event of the step is a failure: a terminal error notification, a
\* transport error, the process exit, an abort, a rejected initialize() or
\* tools/call, or a result that is invalid or flagged isError
FailureEvent ==
    \/ last'.op \in {"exit", "error", "abort"}
    \/ last'.op = "start" /\ signals[StreamTask].aborted
    \/ last'.op = "line" /\ last'.what \in {"garbage", "stream_error", "error"}
    \/ /\ last'.op \in {"startAfterInitialize", "startAfterCall"}
       /\ tasks[StreamTask].error # NoError
    \/ /\ last'.op = "startAfterCall"
       /\ tasks[StreamTask].error = NoError
       /\ \/ tasks[StreamTask].value.kind # "object"
          \/ tasks[StreamTask].value.isError

\* one error frame, then the end frames of the open channels, then finish 'error'
FailureFrames(fs) ==
    /\ Len(fs) >= 2
    /\ fs[1].type = "error"
    /\ fs[Len(fs)] = FinishPart("error")
    /\ \A i \in 2..(Len(fs) - 1) : fs[i].type = "text-end"

\* C34: a generation that is finalized by a failure enqueues, in that step, one
\* error frame, then the end frames of its open channels, then the finish frame
\* with 'error', and that error frame is the only one of the stream; a
\* generation finalized with 'stop' has no error frame; no error or finish
\* frame is enqueued before the finalization or after it.
C34_ErrorFrame ==
    [][ /\ Finalizing =>
               IF FailureEvent
               THEN /\ FailureFrames(Enqueued)
                    /\ Cardinality(ErrorFrames') = 1
                    /\ \A c \in Channels :
                           FramesOf("text-start", c)' # {} =>
                               \E i \in FramesOf("text-end", c)' :
                                   \A e \in ErrorFrames' : e < i
               ELSE /\ ErrorFrames' = {}
                    /\ frames'[Len(frames')] = FinishPart("stop")
        /\ ~Finalizing => Outcome' = Outcome
        /\ ~stream.finished => Outcome = <<>> ]_vars

\* a terminal error notification has finalized a generation whose text and
\* reasoning channels were open
C34_Witness ==
    /\ last.op = "line"
    /\ last.what = "stream_error"
    /\ Len(frames) = 8
    /\ frames[5].type = "error"
    /\ frames[6] = TextEnd("codex-text")
    /\ frames[7] = TextEnd("codex-reasoning")
    /\ frames[8] = FinishPart("error")

\* the tools/call request was rejected
C34_WitnessRejected ==
    /\ last.op = "startAfterCall"
    /\ tasks[StreamTask].error = PlainError("call failed", <<>>)
    /\ Outcome = <<ErrorPart(PlainError("call failed", <<>>)), FinishPart("error")>>

\* a generation finalized with 'stop' sees the process exit afterwards
C34_WitnessStop ==
    /\ last.op = "exit"
    /\ Outcome = <<FinishPart("stop")>>

-----------------------------------------------------------------------------
(* C35: a generation whose signal is aborted before it starts *)

\* start() runs with the signal already aborted
PreAbortedStart == last'.op = "start" /\ signals[StreamTask].aborted

\* the stream is the AbortError frame and the finish frame, it is closed, the
\* client is closed and start() has returned without issuing a request
AbortedAtStart ==
    /\ frames = <<ErrorPart(AbortError), FinishPart("error")>>
    /\ controller.closed
    /\ stream.finished
    /\ client.closed
    /\ child.kills = 1
    /\ tasks[StreamTask].pc = "done"
    /\ promises = <<>>
    /\ wire = <<>>
    /\ client.notificationHandlers = <<>>
    /\ signals[StreamTask].listeners = <<>>

\* C35: when the signal is already aborted as the stream starts, the stream is
\* exactly an error frame with an AbortError and a finish frame with 'error',
\* the client is closed, and nothing is written to the subprocess, then or at
\* any later time.
C35_PreAborted ==
    [][ /\ PreAbortedStart => AbortedAtStart'
        /\ AbortedAtStart => AbortedAtStart' ]_vars

\* the subprocess exits after the aborted start
C35_Witness ==
    /\ AbortedAtStart
    /\ signals[StreamTask].aborted
    /\ child.exited
    /\ last.op = "exit"

-----------------------------------------------------------------------------
(* C36: requests of the server *)

\* the line of the step is a request of the server: it has an id and a method
ServerRequestStep ==
    /\ Len(heard') = Len(heard) + 1
    /\ heard'[Len(heard')].message.hasId
    /\ heard'[Len(heard')].message.hasMethod

\* C36: a line that carries both an id and a method settles no pending request
\* and removes no pending entry, whatever its id.
C36_RequestsSettleNothing ==
    [][ ServerRequestStep =>
            /\ promises' = promises
            /\ client'.pending = client.pending ]_vars

-----------------------------------------------------------------------------
(* C37: the text doGenerate returns *)

\* C37: once the stream is closed, a doGenerate that returns has as its text
\* the concatenation, in order, of the deltas of the codex-text channel alone.
C37_TextChannelOnly ==
    (controller.closed /\ ~doGenerate(frames).thrown) =>
        doGenerate(frames).text = Concat(DeltasOf(frames, "codex-text"))

-----------------------------------------------------------------------------
(* C38: the cancellation notification of an aborted generation *)

\* the tools/call requests that are outstanding
CallsOutstanding == {e \in client.pending : promises[e.p].method = "tools/call"}

\* C38: when the signal of a generation fires while its tools/call request is
\* outstanding on an open session, the step writes notifications/cancelled with
\* the id of that request to the subprocess.
C38_CancelWritten ==
    [][ (AbortStep /\ ~client.closed) =>
            \A e \in CallsOutstanding :
                Notify("notifications/cancelled", promises[e.p].id) \in Written ]_vars

-----------------------------------------------------------------------------
(* C39: a closed session and its subprocess *)

\* the subprocess has exited or failed to spawn, or it has been sent a signal
ChildGone == child.exited \/ child.errored \/ child.kills > 0

\* C39: whenever the session is marked closed the subprocess has exited,
\* failed to spawn or been sent a termination signal; after a call of close()
\* the subprocess is gone or signalled and the reader is closed, also when a
\* transport error had marked the session closed before.
C39_ClosedMeansGone ==
    [][ /\ client'.closed => ChildGone'
        /\ last'.op = "close" =>
               /\ ChildGone'
               /\ child'.exited \/ child'.errored \/ child'.readerClosed > 0 ]_vars

-----------------------------------------------------------------------------
(* C40: overlapping getModel calls for one model *)

\* the calls that returned a model made by a custom factory: loaded, or cached
Served == {r \in DOMAIN requests :
              requests[r].pc = "done" /\ (requests[r].wrote \/ requests[r].fromCache)}

\* no entry can have expired or been evicted: no time has passed and every
\* call was for the same provider and model
OneKeyNoExpiry ==
    /\ now = 0
    /\ \A r, q \in DOMAIN requests : SamePair(r, requests[q])

\* C40: among the getModel calls for one provider and model that a custom
\* factory serves, whatever their interleaving, at most one invokes the factory
\* and all of them return the same model result.
C40_SingleLoad ==
    OneKeyNoExpiry =>
        /\ Cardinality({r \in Served : requests[r].factoryCalls > 0}) <= 1
        /\ \A r, q \in Served : requests[r].outcome = requests[q].outcome

====
